---- MODULE Spec2Model ----
(***************************************************************************)
(* Model of the concept-generation orchestrator of mobius:                 *)
(*   scripts/generateConcepts  (src/unnamed/part_015)  run, merge          *)
(*   scripts/pythonInterop     (src/scripts/pythonInterop.js:1-113)        *)
(*   scripts/listConceptualUnits (src/scripts/pythonInterop.js:115-274)    *)
(*                                                                         *)
(* JavaScript strings are sequences of characters (course ids, names) or   *)
(* sequences of tokens (error messages, the warning).  The Python scripts  *)
(* are external processes: what they print, how they exit and when the     *)
(* timer fires are chosen nondeterministically.  File-system calls and     *)
(* child.kill() are taken to succeed.                                      *)
(***************************************************************************)
EXTENDS Integers, Sequences, FiniteSets, TLC

\* ------------------------------------------------------------------ bounds
MaxUnits == 2

\* ----------------------------------------------------------------- strings
SP == " "

RECURSIVE TrimStart(_)
TrimStart(s) ==
    IF s # <<>> /\ Head(s) = SP THEN TrimStart(Tail(s)) ELSE s

RECURSIVE TrimEnd(_)
TrimEnd(s) ==
    IF s # <<>> /\ s[Len(s)] = SP THEN TrimEnd(SubSeq(s, 1, Len(s) - 1)) ELSE s

\* String.prototype.trim
Trim(s) == TrimEnd(TrimStart(s))

\* a || b on strings: the empty string is falsy
Or(a, b) == IF a # <<>> THEN a ELSE b

Range(s) == {s[i] : i \in 1..Len(s)}

\* Array.prototype.join(" | ") on an array of token strings
SEP == "|"

RECURSIVE Join(_)
Join(parts) ==
    IF parts = <<>> THEN <<>>
    ELSE IF Len(parts) = 1 THEN parts[1]
    ELSE parts[1] \o <<SEP>> \o Join(Tail(parts))

\* ------------------------------------------------------------------- units
AllUnits == <<"A", "B", "C", "D">>

UnitLists == {SubSeq(AllUnits, 1, n) : n \in 0..MaxUnits}

\* ------------------------------------------------------- aggregate store
EmptyStore == [classes |-> <<>>, classNames |-> <<>>, updatedAt |-> 0]

\* loadClassNamesJson: a missing file reads as the empty document
loadClassNamesJson(st) == [classes |-> st.classes, classNames |-> st.classNames]

\* classes.findIndex(...): 0 stands for -1
findIndex(classes, courseId, className) ==
    LET hits == {i \in 1..Len(classes) :
                    \/ classes[i].courseId = courseId
                    \/ Trim(classes[i].className) = className}
    IN IF hits = {} THEN 0 ELSE CHOOSE i \in hits : \A j \in hits : i <= j

\* variant: empty names are dropped but repeated names are kept
DedupKeepsAll(names) == SelectSeq(names, LAMBDA n : n # <<>>)

\* [...new Set(names.filter(Boolean))]
RECURSIVE Dedup(_)
Dedup(names) ==
    IF names = <<>> THEN <<>>
    ELSE LET init == Dedup(SubSeq(names, 1, Len(names) - 1))
             last == names[Len(names)]
         IN IF last = <<>> \/ last \in Range(init) THEN init ELSE Append(init, last)

classNamesOf(classes) == Dedup([i \in 1..Len(classes) |-> Trim(classes[i].className)])

\* variant: the file is rewritten from the incoming course alone
mergeCourseReplacingFile(st, course, updatedAt) ==
    LET courseId  == Trim(course.courseId)
        className == Or(Trim(Or(course.courseName, courseId)), courseId)
        classes   == <<[courseId |-> courseId, className |-> className, units |-> course.units]>>
    IN [classes |-> classes, classNames |-> classNamesOf(classes), updatedAt |-> updatedAt]

\* mergeCourseIntoClassNames(course, {updatedAt}): the document written
mergeCourseIntoClassNames(st, course, updatedAt) ==
    LET existing  == loadClassNamesJson(st)
        courseId  == Trim(course.courseId)
        className == Or(Trim(Or(course.courseName, courseId)), courseId)
        nextEntry == [courseId |-> courseId, className |-> className, units |-> course.units]
        idx       == findIndex(existing.classes, courseId, className)
        classes   == IF idx > 0 THEN [existing.classes EXCEPT ![idx] = nextEntry]
                     ELSE Append(existing.classes, nextEntry)
    IN [classes |-> classes, classNames |-> classNamesOf(classes), updatedAt |-> updatedAt]


\* .filter((course) => course.courseId && course.className)
RECURSIVE WithIdAndName(_)
WithIdAndName(classes) ==
    IF classes = <<>> THEN <<>>
    ELSE LET rest == WithIdAndName(Tail(classes))
         IN IF Head(classes).courseId # <<>> /\ Head(classes).className # <<>>
            THEN <<Head(classes)>> \o rest ELSE rest

\* writeSelectedCoursesToClassNamesJson(courses) of generateConcepts: the
\* document written; courseName is preferred to className
writeSelectedCoursesToClassNamesJson(courses, updatedAt) ==
    LET classes == WithIdAndName(
            [i \in 1..Len(courses) |->
                [courseId  |-> Trim(courses[i].courseId),
                 className |-> Trim(Or(Or(courses[i].courseName, courses[i].className),
                                       courses[i].courseId)),
                 units     |-> courses[i].units]])
    IN [classes |-> classes,
        classNames |-> Dedup([i \in 1..Len(classes) |-> classes[i].className]),
        updatedAt |-> updatedAt]

\* writeSelectedCoursesToClassNamesJson(courses) of listConceptualUnits, which
\* the POST handler calls as writeSelected: className is preferred to courseName
writeSelected(courses, updatedAt) ==
    LET classes == WithIdAndName(
            [i \in 1..Len(courses) |->
                [courseId  |-> Trim(courses[i].courseId),
                 className |-> Trim(Or(Or(courses[i].className, courses[i].courseName),
                                       courses[i].courseId)),
                 units     |-> courses[i].units]])
    IN [classes |-> classes,
        classNames |-> Dedup([i \in 1..Len(classes) |-> classes[i].className]),
        updatedAt |-> updatedAt]

\* ------------------------------------------------------------ JS errors
NoError == [set |-> FALSE, code |-> "", message |-> <<>>]

\* new Error(message), with the code a spawn failure carries
Err(code, message) == [set |-> TRUE, code |-> code, message |-> message]

\* ------------------------------------------- what a Python script prints
\* The JSON documents a script may print: an object, an array or null.
NoOutput == [kind |-> "none", courseId |-> <<>>, courseName |-> <<>>,
             units |-> <<>>, error |-> "none"]

NullOutput == [NoOutput EXCEPT !.kind = "null"]

ArrayOutputs == {[NoOutput EXCEPT !.kind = "array", !.units = u] : u \in UnitLists}

\* error: absent, a message, or a truthy value whose String() is "" (such as [])
ObjectOutputs ==
    {[kind |-> "object", courseId |-> i, courseName |-> n, units |-> u, error |-> "none"] :
        i \in {<<>>, <<"2">>}, n \in {<<>>, <<"B">>}, u \in UnitLists}
    \cup {[NoOutput EXCEPT !.kind = "object", !.error = e] : e \in {"msg", "blank"}}

Documents == {NullOutput} \cup ArrayOutputs \cup ObjectOutputs

\* stdout as accumulated by the "data" handler: nothing yet (""), whitespace,
\* text that is not JSON, or the text of a JSON document.  Nothing reads the
\* document before JSON.parse does, so which document the text holds is
\* chosen when it is parsed.
StdoutTexts == {"blank", "garbage", "json"}

\* stdout.trim() as a message text
TrimmedText(text) ==
    IF text \in {"", "blank"} THEN <<>> ELSE <<"stdout text">>

\* String(tagResult.error)
ErrorText(out) == IF out.error = "msg" THEN <<"tag_chunks error">> ELSE <<>>

\* parseJsonOutput(stdout), doc being the document a JSON text holds:
\* [ok, value] or [ok = FALSE, error]
parseJsonOutput(text, doc) ==
    IF text \in {"", "blank"}
    THEN [ok |-> FALSE, value |-> NoOutput,
          error |-> Err("", <<"Python script returned empty output">>)]
    ELSE IF text = "garbage"
    THEN [ok |-> FALSE, value |-> NoOutput,
          error |-> Err("", <<"Python script output was not valid JSON">>)]
    ELSE [ok |-> TRUE, value |-> doc, error |-> NoError]

\* ------------------------------------- parseJsonOutput on the text itself
\* Output text as a sequence of tokens: whitespace, a character of prose, a
\* fence of three backticks, the word json, and the brackets of JSON.
FENCE == "fence"

TextTokens == {SP, "x", FENCE, "json", "{", "}", "[", "]"}

RECURSIVE Texts(_)
Texts(n) ==
    IF n = 0 THEN {<<>>}
    ELSE Texts(n - 1) \cup {Append(t, k) : t \in Texts(n - 1), k \in TextTokens}

\* the position of the first token from i on that is one of set, Len(s) + 1 if none
FirstFrom(s, i, set) ==
    LET hits == {k \in i..Len(s) : s[k] \in set}
    IN IF hits = {} THEN Len(s) + 1 ELSE CHOOSE k \in hits : \A j \in hits : k <= j

Strip(s) == SelectSeq(s, LAMBDA k : k # SP)

\* the texts JSON.parse accepts, whitespace removed: {} and arrays of one value
RECURSIVE IsJsonValue(_)
IsJsonValue(t) ==
    \/ t = <<"{", "}">>
    \/ /\ Len(t) >= 2 /\ t[1] = "[" /\ t[Len(t)] = "]"
       /\ Len(t) = 2 \/ IsJsonValue(SubSeq(t, 2, Len(t) - 1))

SyntaxError == Err("", <<"Unexpected token in JSON">>)

\* JSON.parse(text): the value (its text without whitespace) or a SyntaxError
JSONparse(text, via) ==
    IF IsJsonValue(Strip(text))
    THEN [ok |-> TRUE, value |-> Strip(text), error |-> NoError, via |-> via]
    ELSE [ok |-> FALSE, value |-> <<>>, error |-> SyntaxError, via |-> via]

\* trimmed.match(/```(?:json)?\s*([\s\S]*?)```/i)?.[1], <<>> when there is no match
fencedGroup(trimmed) ==
    LET open   == FirstFrom(trimmed, 1, {FENCE})
        afterT == IF open + 1 <= Len(trimmed) /\ trimmed[open + 1] = "json"
                  THEN open + 2 ELSE open + 1
        start  == FirstFrom(trimmed, afterT, TextTokens \ {SP})
        close  == FirstFrom(trimmed, start, {FENCE})
    IN IF open > Len(trimmed) \/ close > Len(trimmed) THEN <<>>
       ELSE SubSeq(trimmed, start, close - 1)

\* trimmed.match(/(\{[\s\S]*\})\s*$/)?.[1] and its [ ] twin, <<>> when no match
trailingGroup(trimmed, opening, closing) ==
    LET first == FirstFrom(trimmed, 1, {opening})
    IN IF trimmed # <<>> /\ trimmed[Len(trimmed)] = closing /\ first < Len(trimmed)
       THEN SubSeq(trimmed, first, Len(trimmed))
       ELSE <<>>

\* parseJsonOutput(rawOutput), statement by statement: the value returned or
\* the error thrown, and the step that produced it
parseJsonOutputChain(rawOutput) ==
    LET trimmed == Trim(rawOutput)
        whole   == JSONparse(trimmed, "whole")
    IN IF trimmed = <<>>
       THEN [ok |-> FALSE, value |-> <<>>, via |-> "none",
             error |-> Err("", <<"Python script returned empty output">>)]
       ELSE IF whole.ok THEN whole
       ELSE IF fencedGroup(trimmed) # <<>>
       THEN JSONparse(Trim(fencedGroup(trimmed)), "fenced")
       ELSE IF trailingGroup(trimmed, "{", "}") # <<>>
       THEN JSONparse(trailingGroup(trimmed, "{", "}"), "object")
       ELSE IF trailingGroup(trimmed, "[", "]") # <<>>
       THEN JSONparse(trailingGroup(trimmed, "[", "]"), "array")
       ELSE [ok |-> FALSE, value |-> <<>>, via |-> "none",
             error |-> Err("", <<"Python script output was not valid JSON">>)]

NotParsed == [ok |-> FALSE, value |-> <<>>, via |-> "pending", error |-> NoError]

\* ------------------------------------------------------ runPythonCommand
PYTHON_CANDIDATES == <<"python", "python3", "py">>

Stages == {"initial_read", "build", "tag", "final_read", "fallback_read"}

ScriptOf(stage) ==
    CASE stage = "build" -> "build_lesson_plan.py"
      [] stage = "tag"   -> "tag_chunks.py"
      [] OTHER           -> "list_units.py"

NoChild == [stage |-> "none", cand |-> 0, phase |-> "none", stdout |-> "",
            stderr |-> <<>>, timedOut |-> FALSE, timer |-> "cleared", killed |-> FALSE,
            settled |-> "pending", error |-> NoError, awaited |-> FALSE]

\* spawn(candidate.command, ...) and setTimeout(..., timeoutMs): the closure's state
NewChild(stage, cand) ==
    [NoChild EXCEPT !.stage = stage, !.cand = cand, !.phase = "running", !.timer = "armed",
                    !.awaited = TRUE]

ProcOf(c) == [stage |-> c.stage, cand |-> c.cand]

\* reject(e) / resolve(v): a settled promise stays as it is
Reject(c, e) == IF c.settled = "pending" THEN [c EXCEPT !.settled = "rejected", !.error = e] ELSE c

Resolve(c) == IF c.settled = "pending" THEN [c EXCEPT !.settled = "resolved"] ELSE c

\* variant: the timer callback rejects at once instead of leaving it to "close"
onTimeoutRejects(c) ==
    [c EXCEPT !.timer = "fired", !.timedOut = TRUE, !.killed = TRUE,
              !.settled = "rejected",
              !.error = Err("", <<"Timed out running", ScriptOf(c.stage)>>)]

\* variant: the timer callback marks the timeout and leaves the process running
onTimeoutWithoutKill(c) == [c EXCEPT !.timer = "fired", !.timedOut = TRUE]

\* the setTimeout callback
onTimeout(c) == [c EXCEPT !.timer = "fired", !.timedOut = TRUE, !.killed = TRUE]

\* child.stdout.on("data"), child.stderr.on("data")
onStdout(c, text) == [c EXCEPT !.stdout = text]

onStderr(c, text) == [c EXCEPT !.stderr = text]

\* child.on("error")
onError(c, code) ==
    Reject([c EXCEPT !.timer = "cleared", !.phase = "failed"],
           Err(code, <<"spawn", PYTHON_CANDIDATES[c.cand], code>>))

\* variant: the exit status is looked at before timedOut
onCloseStatusFirst(c, code, signal) ==
    LET c1 == [c EXCEPT !.timer = IF c.timer = "armed" THEN "cleared" ELSE c.timer,
                        !.phase = "closed"]
    IN IF signal # "null"
       THEN Reject(c1, Err("", <<"Python process terminated by signal", signal>>))
       ELSE IF code # 0
       THEN Reject(c1, Err("", Or(Or(Trim(c.stderr), TrimmedText(c.stdout)),
                                  <<ScriptOf(c.stage), "failed with exit code">>)))
       ELSE IF c1.timedOut
       THEN Reject(c1, Err("", <<"Timed out running", ScriptOf(c.stage)>>))
       ELSE Resolve(c1)

\* child.on("close")
onClose(c, code, signal) ==
    LET c1 == [c EXCEPT !.timer = IF c.timer = "armed" THEN "cleared" ELSE c.timer,
                        !.phase = "closed"]
    IN IF c1.timedOut
       THEN Reject(c1, Err("", <<"Timed out running", ScriptOf(c.stage)>>))
       ELSE IF signal # "null"
       THEN Reject(c1, Err("", <<"Python process terminated by signal", signal>>))
       ELSE IF code # 0
       THEN Reject(c1, Err("", Or(Or(Trim(c.stderr), TrimmedText(c.stdout)),
                                  <<ScriptOf(c.stage), "failed with exit code">>)))
       ELSE Resolve(c1)


\* --------------------------------------------------- listConceptualUnits
\* normalizeConceptualPayload(courseId, payload)
normalizeConceptualPayload(courseId, v) ==
    IF v.kind = "object"
    THEN [courseId   |-> IF Trim(v.courseId) # <<>> THEN Trim(v.courseId) ELSE courseId,
          courseName |-> v.courseName,
          units      |-> v.units]
    ELSE IF v.kind = "array"
    THEN [courseId |-> courseId, courseName |-> <<>>, units |-> v.units]
    ELSE [courseId |-> courseId, courseName |-> <<>>, units |-> <<>>]

\* listConceptualUnits.run({courseId, className}): its result for the parsed payload v
listConceptualUnits(courseId, className, v) ==
    LET normalized == normalizeConceptualPayload(courseId, v)
        courseName == Or(Or(normalized.courseName, Trim(className)), courseId)
    IN [courseId   |-> Or(normalized.courseId, courseId),
        courseName |-> courseName,
        className  |-> courseName,
        units      |-> normalized.units]

\* ------------------------------------------------- generateConcepts.run
VARIABLES
    opts,                 \* the options run() was called with
    pc,                   \* where run() is: "start", the stage it awaits, "done"
    outcome,              \* "none", "resolved" or "rejected": run()'s promise
    result,               \* the payload run() resolved with
    thrown,               \* the error run() rejected with
    existingLookupError,  \* run()'s local
    generationError,      \* run()'s local
    child,                \* runPythonCommand's closure for the current candidate
    procs,                \* operating-system processes spawned and not yet closed
    ret,                  \* runPythonJson's settled promise, until run() resumes
    store,                \* public/classNames.json
    fileWrites,           \* number of writeFileSync calls on classNames.json
    now,                  \* the clock read by new Date()
    trace,                \* history: the stages whose invocation was started
    tried,                \* history: how each candidate of the pending invocation ended
    completions,          \* history: close events per stage
    failedStages          \* history: the stages whose invocation failed

\* parseJsonOutput taken on its own
VARIABLES
    rawOutput,            \* the text handed to parseJsonOutput
    parsed                \* what parseJsonOutput returned or threw

parseVars == <<rawOutput, parsed>>

\* writes to classNames.json taken on their own
VARIABLES
    incoming              \* history: the last write and its argument

\* POST /api/canvas/concepts
VARIABLES
    request,              \* the body of the request being served
    settled,              \* Promise.allSettled: how each run() has settled so far
    response              \* the response sent

postVars == <<request, settled, response>>

\* two course-runs, each in its own process, that write classNames.json
VARIABLES
    racers,               \* per course-run: where it is, its payload, the file as it read it
    writes                \* history: the course-runs in the order of their writes

raceVars == <<racers, writes>>

\* fetchCanvasData of scripts/getCanvas
VARIABLES
    cvPc,                 \* "listing", "relisting", "courses", "done" or "failed"
    canvasCourses,        \* courses: what the listing returned
    cvIndex,              \* the position in activeCourses of the course in the loop
    endpoints,            \* the two safeGetAllPages calls of that course
    classesWithIds,       \* fetchCanvasData's local
    canvasResult,         \* what fetchCanvasData resolved with
    failure,              \* the error fetchCanvasData rejected with
    visited               \* history: per finished course, how its endpoints ended

canvasVars == <<cvPc, canvasCourses, cvIndex, endpoints, classesWithIds, canvasResult,
                failure, visited>>

\* the Retrieval Service
VARIABLES
    query,                \* the request: candidates with their similarity, top K, threshold
    retrieved             \* its outcome

retrieveVars == <<query, retrieved>>

\* the Chunk Tagger
VARIABLES
    tagPc,                \* "idle", "tagging", "done" or "failed"
    tagRun,               \* the number of the tagging run, 0 before the first
    batchSize,            \* chunks per batch of the run
    nextChunk,            \* the first chunk not yet classified
    tagged,               \* the assignments the run has produced so far
    assignments,          \* the course's stored chunk assignments
    preRun                \* history: the stored assignments when the run started

tagVars == <<tagPc, tagRun, batchSize, nextChunk, tagged, assignments, preRun>>

\* the mastery scores of a unit
VARIABLES
    mastery               \* a call of mergeMastery: its arguments and what it returned

masteryVars == <<mastery>>

\* listConceptualUnits.runMany
VARIABLES
    many                  \* a call of runMany: its options, its runs, its promise

manyVars == <<many>>

\* the variables no step of run() touches
outsideRun == <<parseVars, incoming, postVars, raceVars, canvasVars, retrieveVars, tagVars, masteryVars, manyVars>>

runState == <<opts, pc, outcome, result, thrown, existingLookupError, generationError,
              child, procs, ret, store, fileWrites, now, trace, tried, completions,
              failedStages>>

vars == <<runState, outsideRun>>

ParseIdle == rawOutput = <<>> /\ parsed = NotParsed

NoCourse == [courseId |-> <<>>, courseName |-> <<>>, className |-> <<>>, units |-> <<>>]

NoWrite == [op |-> "none", course |-> NoCourse, courses |-> <<>>]

StoreIdle == incoming = NoWrite

NoRequest == [courseIds |-> <<>>, courses |-> <<>>, received |-> FALSE]

NoResponse == [status |-> 0, error |-> <<>>, failedCourses |-> <<>>, courses |-> <<>>,
               single |-> FALSE]

PostIdle == request = NoRequest /\ settled = <<>> /\ response = NoResponse

RaceIdle == racers = <<>> /\ writes = <<>>

NoEndpoint == [state |-> "idle", page |-> 0, all |-> 0, status |-> 0]

NoEndpoints == [assignments |-> NoEndpoint, files |-> NoEndpoint]

NoFailure == [where |-> "none", status |-> 0]

NoCanvasResult == [set |-> FALSE, classes |-> <<>>, classNames |-> <<>>]

\* fetchCanvasData has not been called
CanvasAtStart ==
    /\ canvasCourses = <<>>
    /\ cvIndex = 0
    /\ endpoints = NoEndpoints
    /\ classesWithIds = <<>>
    /\ canvasResult = NoCanvasResult
    /\ failure = NoFailure
    /\ visited = <<>>

CanvasIdle == cvPc = "idle" /\ CanvasAtStart

NoQuery == [candidates |-> <<>>, topK |-> 0, threshold |-> 0]

NotRetrieved == [outcome |-> "pending", chunks |-> <<>>]

RetrieveIdle == query = NoQuery /\ retrieved = NotRetrieved

TagIdle ==
    /\ tagPc = "idle" /\ tagRun = 0 /\ batchSize = 0 /\ nextChunk = 0
    /\ tagged = {} /\ assignments = {} /\ preRun = {}

NoMastery == [pc |-> "idle"]

MasteryIdle == mastery = NoMastery

NoMany == [pc |-> "idle", courses |-> <<>>, writeFile |-> FALSE, runs |-> <<>>,
           rejectedBy |-> 0, results |-> <<>>]

ManyIdle == many = NoMany

NoRet == [status |-> "none", value |-> NoOutput, error |-> NoError]

NoResult == [courseId |-> <<>>, courseName |-> <<>>, units |-> <<>>, updatedAt |-> 0,
             hasWarning |-> FALSE, warning |-> <<>>]

\* lines 87, 92, 96, 97: the options as run() normalizes them
courseIdOf(o) == Trim(o.courseId)

courseNameOf(o) == Trim(o.courseName)

\* variant: the option is tested the wrong way round
allowExistingFallbackInverted(o) == ~o.allowExistingFallback

\* variant: the option is not honoured
allowExistingFallbackAlways(o) == TRUE

allowExistingFallback(o) == o.allowExistingFallback

preferExisting(o) == o.preferExisting

\* variant: the file is written whatever the option says
writeFileAlways(o) == TRUE

writeFile(o) == o.writeFile

Options ==
    [courseId : {<<>>, <<"1", SP>>}, courseName : {<<>>, <<"B">>},
     allowExistingFallback : BOOLEAN, preferExisting : BOOLEAN, writeFile : BOOLEAN]

\* classNames.json before the run: the file does not exist yet
InitialStores == {EmptyStore}

\* run() has not started: its promise, locals, child and histories
RunAtStart ==
    /\ pc = "start"
    /\ outcome = "none"
    /\ result = NoResult
    /\ thrown = NoError
    /\ existingLookupError = NoError
    /\ generationError = NoError
    /\ child = NoChild
    /\ procs = {}
    /\ ret = NoRet
    /\ fileWrites = 0
    /\ now = 1
    /\ trace = <<>>
    /\ tried = <<>>
    /\ completions = [s \in Stages |-> 0]
    /\ failedStages = {}

Init ==
    /\ opts \in Options
    /\ store \in InitialStores
    /\ RunAtStart
    /\ ParseIdle
    /\ StoreIdle
    /\ PostIdle
    /\ RaceIdle
    /\ CanvasIdle
    /\ RetrieveIdle
    /\ TagIdle
    /\ MasteryIdle
    /\ ManyIdle


\* ---------------------------------------------------------------- events
\* A settled promise's continuation runs as a microtask, before any other event.
MicrotaskPending == (child.awaited /\ child.settled # "pending") \/ ret.status # "none"

runVars == <<opts, pc, outcome, result, thrown, existingLookupError, generationError,
             ret, store, fileWrites, now, trace, failedStages>>

\* spawn failed: "error" is emitted before any other event of the child
ChildError ==
    /\ ~MicrotaskPending
    /\ UNCHANGED outsideRun
    /\ child.phase = "running" /\ child.timer = "armed"
    /\ child.stdout = "" /\ child.stderr = <<>>
    /\ \E code \in {"ENOENT", "EACCES"} :
          /\ child' = onError(child, code)
          /\ tried' = Append(tried, code)
    /\ procs' = procs \ {ProcOf(child)}
    /\ UNCHANGED <<runVars, completions>>

StdoutData ==
    /\ ~MicrotaskPending
    /\ UNCHANGED outsideRun
    /\ child.phase = "running" /\ child.stdout = ""
    /\ \E text \in StdoutTexts : child' = onStdout(child, text)
    /\ UNCHANGED <<runVars, procs, tried, completions>>

TimerFires ==
    /\ ~MicrotaskPending
    /\ UNCHANGED outsideRun
    /\ child.timer = "armed"
    /\ child' = onTimeout(child)
    /\ UNCHANGED <<runVars, procs, tried, completions>>

StderrTexts == {<<>>, <<"stderr text", SP>>}

\* The process ends: with an exit code, or by a signal (SIGTERM after child.kill()).
\* A process that had already exited when the timer fired still closes with its code.
\* The stderr "data" handler only accumulates the text that the "close" handler
\* reads, so what stderr delivered is chosen here, as the handlers run; nothing
\* reads stderr after "close".
ChildClose ==
    /\ ~MicrotaskPending
    /\ UNCHANGED outsideRun
    /\ \E p \in procs :
         /\ procs' = procs \ {p}
         /\ completions' = [completions EXCEPT ![p.stage] = @ + 1]
         /\ IF p = ProcOf(child) /\ child.phase = "running"
            THEN /\ \E cs \in {<<0, "null">>, <<1, "null">>, <<-1, "SIGTERM">>},
                       text \in StderrTexts :
                       child' = [onClose(onStderr(child, text), cs[1], cs[2])
                                   EXCEPT !.stderr = <<>>]
                 /\ tried' = Append(tried, "closed")
            ELSE UNCHANGED <<child, tried>>
    /\ UNCHANGED runVars

\* ------------------------------------------------------- runPythonJson
\* variant: every spawn error moves on to the next candidate
IsUnavailableAnyCode(e) == e.set /\ e.code # ""

\* variant: every failure moves on to the next candidate
IsUnavailableOrFailed(e) == e.set

\* error && error.code === "ENOENT"
IsUnavailable(e) == e.set /\ e.code = "ENOENT"

\* lines 92-105: the loop body after `await runPythonCommand(...)` settles
InteropResume ==
    /\ child.awaited /\ child.settled # "pending"
    /\ UNCHANGED outsideRun
    /\ IF child.settled = "resolved"
       THEN /\ \E doc \in Documents :
                 LET p == parseJsonOutput(child.stdout, doc)
                 IN ret' = [status |-> IF p.ok THEN "ok" ELSE "failed",
                            value |-> p.value, error |-> p.error]
            /\ child' = NoChild
            /\ tried' = <<>>
            /\ UNCHANGED procs
       ELSE IF IsUnavailable(child.error) /\ child.cand < Len(PYTHON_CANDIDATES)
       THEN /\ child' = NewChild(child.stage, child.cand + 1)
            /\ procs' = procs \cup {ProcOf(child')}
            /\ UNCHANGED <<ret, tried>>
       ELSE /\ ret' = [status |-> "failed", value |-> NoOutput, error |-> child.error]
            /\ child' = NoChild
            /\ tried' = <<>>
            /\ UNCHANGED procs
    /\ UNCHANGED <<opts, pc, outcome, result, thrown, existingLookupError, generationError,
                   store, fileWrites, now, trace, completions, failedStages>>


\* ------------------------------------------------- run(): its statements
\* runPythonJson(script, ...) up to its first await: the first candidate is spawned
BeginStage(stage) ==
    /\ pc' = stage
    /\ trace' = Append(trace, stage)
    /\ tried' = <<>>
    /\ child' = NewChild(stage, 1)
    /\ procs' = procs \cup {ProcOf(child')}
    /\ ret' = NoRet

\* lines 106-111, 146-151: the payload built from a read-back
PayloadOf(conceptual, o, updatedAt) ==
    [courseId   |-> Or(conceptual.courseId, courseIdOf(o)),
     courseName |-> Or(Or(conceptual.courseName, courseNameOf(o)), courseIdOf(o)),
     units      |-> conceptual.units,
     updatedAt  |-> updatedAt,
     hasWarning |-> FALSE,
     warning    |-> <<>>]

\* if (options.writeFile !== false) mergeCourseIntoClassNames(payload, ...)
WriteAndReturn(payload) ==
    /\ IF writeFile(opts)
       THEN /\ store' = mergeCourseIntoClassNames(store, payload, payload.updatedAt)
            /\ fileWrites' = fileWrites + 1
       ELSE UNCHANGED <<store, fileWrites>>
    /\ now' = now + 1
    /\ pc' = "done"
    /\ outcome' = "resolved"
    /\ result' = payload
    /\ ret' = NoRet
    /\ UNCHANGED <<thrown, child, procs, trace, tried>>

\* variant: the short-circuit asks for more than one unit
HasUnitsMoreThanOne(conceptual) == Len(conceptual.units) > 1

\* line 105: Array.isArray(conceptual.units) && conceptual.units.length > 0
HasUnits(conceptual) == Len(conceptual.units) > 0

\* variant: a plan printed as a bare array counts as its units
unitsPlanAnyShape(plan) == plan.units

\* line 131: Array.isArray(plan?.units) ? plan.units : []
unitsPlan(plan) == IF plan.kind = "object" THEN plan.units ELSE <<>>

\* line 141: tagResult && typeof tagResult === "object" && tagResult.error
TagReportsError(tagResult) == tagResult.kind = "object" /\ tagResult.error # "none"

\* lines 158-162 and 207: the catch of the main path, then fallback or rethrow
MainPathFailed(e) ==
    /\ generationError' = e
    /\ IF allowExistingFallback(opts)
       THEN /\ BeginStage("fallback_read")
            /\ UNCHANGED <<outcome, thrown>>
       ELSE /\ pc' = "done"
            /\ outcome' = "rejected"
            /\ thrown' = e
            /\ ret' = NoRet
            /\ UNCHANGED <<child, procs, trace, tried>>
    /\ UNCHANGED <<result, store, fileWrites, now, existingLookupError>>

Noted(stage) == IF ret.status = "failed" THEN failedStages \cup {stage} ELSE failedStages

\* lines 86-102, 125: run() up to its first await
Start ==
    /\ pc = "start"
    /\ UNCHANGED outsideRun
    /\ IF courseIdOf(opts) = <<>>
       THEN /\ pc' = "done"
            /\ outcome' = "rejected"
            /\ thrown' = Err("", <<"Missing courseId">>)
            /\ UNCHANGED <<child, procs, ret, trace, tried>>
       ELSE /\ BeginStage(IF preferExisting(opts) THEN "initial_read" ELSE "build")
            /\ UNCHANGED <<outcome, thrown>>
    /\ UNCHANGED <<opts, result, existingLookupError, generationError, store, fileWrites,
                   now, completions, failedStages>>

\* lines 104-125: after the initial list_units.py settles
AfterInitialRead ==
    /\ pc = "initial_read" /\ ret.status # "none"
    /\ UNCHANGED outsideRun
    /\ failedStages' = Noted("initial_read")
    /\ IF ret.status = "ok"
       THEN LET conceptual == listConceptualUnits(courseIdOf(opts), <<>>, ret.value)
            IN IF HasUnits(conceptual)
               THEN /\ WriteAndReturn(PayloadOf(conceptual, opts, now))
                    /\ UNCHANGED existingLookupError
               ELSE /\ BeginStage("build")
                    /\ UNCHANGED <<existingLookupError, outcome, result, thrown, store,
                                   fileWrites, now>>
       ELSE /\ existingLookupError' = ret.error
            /\ BeginStage("build")
            /\ UNCHANGED <<outcome, result, thrown, store, fileWrites, now>>
    /\ UNCHANGED <<opts, generationError, completions>>

\* lines 131-136: after build_lesson_plan.py settles
AfterBuild ==
    /\ pc = "build" /\ ret.status # "none"
    /\ UNCHANGED outsideRun
    /\ failedStages' = Noted("build")
    /\ IF ret.status = "ok"
       THEN IF Len(unitsPlan(ret.value)) = 0
            THEN MainPathFailed(Err("", <<"Failed to build a lesson plan (no units)">>))
            ELSE /\ BeginStage("tag")
                 /\ UNCHANGED <<outcome, result, thrown, store, fileWrites, now,
                                existingLookupError, generationError>>
       ELSE MainPathFailed(ret.error)
    /\ UNCHANGED <<opts, completions>>

\* lines 141-145: after tag_chunks.py settles
AfterTag ==
    /\ pc = "tag" /\ ret.status # "none"
    /\ UNCHANGED outsideRun
    /\ failedStages' = Noted("tag")
    /\ IF ret.status = "ok"
       THEN IF TagReportsError(ret.value)
            THEN MainPathFailed(Err("", ErrorText(ret.value)))
            ELSE /\ BeginStage("final_read")
                 /\ UNCHANGED <<outcome, result, thrown, store, fileWrites, now,
                                existingLookupError, generationError>>
       ELSE MainPathFailed(ret.error)
    /\ UNCHANGED <<opts, completions>>

\* lines 145-160: after the final list_units.py settles
AfterFinalRead ==
    /\ pc = "final_read" /\ ret.status # "none"
    /\ UNCHANGED outsideRun
    /\ failedStages' = Noted("final_read")
    /\ IF ret.status = "ok"
       THEN /\ WriteAndReturn(
                 PayloadOf(listConceptualUnits(courseIdOf(opts), <<>>, ret.value), opts, now))
            /\ UNCHANGED <<existingLookupError, generationError>>
       ELSE MainPathFailed(ret.error)
    /\ UNCHANGED <<opts, completions>>

\* variant: the units of a successful fallback read are dropped
fallbackPayloadNoUnits(o, r) ==
    [courseId   |-> courseIdOf(o),
     courseName |-> Or(courseNameOf(o), courseIdOf(o)),
     units      |-> <<>>]

\* lines 163-179: fallbackPayload and fallbackError after the fallback read
fallbackPayload(o, r) ==
    IF r.status = "ok"
    THEN LET conceptual == listConceptualUnits(courseIdOf(o), <<>>, r.value)
         IN [courseId   |-> Or(conceptual.courseId, courseIdOf(o)),
             courseName |-> Or(Or(conceptual.courseName, courseNameOf(o)), courseIdOf(o)),
             units      |-> conceptual.units]
    ELSE [courseId   |-> courseIdOf(o),
          courseName |-> Or(courseNameOf(o), courseIdOf(o)),
          units      |-> <<>>]

fallbackError(r) == IF r.status = "ok" THEN <<>> ELSE r.error.message

INITIAL_FAILED == "Initial list_units failed:"

FALLBACK_FAILED == "Fallback list_units failed:"

\* variant: the initial read's failure is left out of the warning
warningPartsNoInitial(lookupErr, genErr, fbErr) ==
    (IF genErr.set THEN <<genErr.message>> ELSE <<>>)
    \o (IF fbErr # <<>> THEN << <<FALLBACK_FAILED>> \o fbErr >> ELSE <<>>)

\* lines 181-192
warningParts(lookupErr, genErr, fbErr) ==
    (IF lookupErr.set THEN << <<INITIAL_FAILED>> \o lookupErr.message >> ELSE <<>>)
    \o (IF genErr.set THEN <<genErr.message>> ELSE <<>>)
    \o (IF fbErr # <<>> THEN << <<FALLBACK_FAILED>> \o fbErr >> ELSE <<>>)

\* lines 170-204: after the fallback list_units.py settles
AfterFallbackRead ==
    /\ pc = "fallback_read" /\ ret.status # "none"
    /\ UNCHANGED outsideRun
    /\ failedStages' = Noted("fallback_read")
    /\ LET fb == fallbackPayload(opts, ret)
           payload == [courseId   |-> fb.courseId,
                       courseName |-> fb.courseName,
                       units      |-> fb.units,
                       updatedAt  |-> now,
                       hasWarning |-> TRUE,
                       warning    |-> Join(warningParts(existingLookupError, generationError,
                                                        fallbackError(ret)))]
       IN WriteAndReturn(payload)
    /\ UNCHANGED <<opts, existingLookupError, generationError, completions>>

Next ==
    \/ Start
    \/ ChildError
    \/ StdoutData
    \/ TimerFires
    \/ ChildClose
    \/ InteropResume
    \/ AfterInitialRead
    \/ AfterBuild
    \/ AfterTag
    \/ AfterFinalRead
    \/ AfterFallbackRead

Spec == Init /\ [][Next]_vars

\* The event loop runs a continuation whose promise has settled; a timer that
\* stays armed fires; a process that child.kill() has signalled closes.  A
\* process that is left alone may run for ever.
\* the step of run() after its awaited runPythonJson has settled: one of
\* AfterInitialRead, AfterBuild, AfterTag, AfterFinalRead, AfterFallbackRead
RunResumes == ret.status # "none" /\ ret' = NoRet

\* the "close" of the process the timer has killed
KilledChildCloses ==
    /\ ~MicrotaskPending
    /\ child.killed /\ ProcOf(child) \in procs
    /\ procs' = procs \ {ProcOf(child)}

Fairness ==
    /\ WF_vars(Start)
    /\ WF_vars(InteropResume)
    /\ WF_ret(RunResumes)
    /\ WF_vars(TimerFires)
    /\ WF_procs(KilledChildCloses)

SpecLive == Init /\ [][Next]_vars /\ Fairness


\* ------------------------------------------- parseJsonOutput on its own
MaxText == 5

\* no run() is under way
RunIdle ==
    /\ opts = [courseId |-> <<>>, courseName |-> <<>>, allowExistingFallback |-> TRUE,
               preferExisting |-> TRUE, writeFile |-> TRUE]
    /\ store = EmptyStore
    /\ RunAtStart

InitParse ==
    /\ rawOutput \in Texts(MaxText)
    /\ parsed = NotParsed
    /\ RunIdle
    /\ StoreIdle
    /\ PostIdle
    /\ RaceIdle
    /\ CanvasIdle
    /\ RetrieveIdle
    /\ TagIdle
    /\ MasteryIdle
    /\ ManyIdle

\* parseJsonOutput(stdout), as runPythonJson calls it
Parse ==
    /\ parsed = NotParsed
    /\ parsed' = parseJsonOutputChain(rawOutput)
    /\ UNCHANGED <<rawOutput, runState, incoming, postVars, raceVars, canvasVars, retrieveVars, tagVars, masteryVars, manyVars>>

NextParse == Parse

SpecParse == InitParse /\ [][NextParse]_vars


\* ------------------------------------ writes to classNames.json on their own
MaxWrites == 3

\* no run() is under way: everything of run() but the file and the clock
RunNotCalled ==
    /\ opts = [courseId |-> <<>>, courseName |-> <<>>, allowExistingFallback |-> TRUE,
               preferExisting |-> TRUE, writeFile |-> TRUE]
    /\ RunAtStart

notFile == <<opts, pc, outcome, result, thrown, existingLookupError, generationError,
             child, procs, ret, trace, tried, completions, failedStages>>

\* a file left by an earlier tool: a placeholder entry without courseId
LegacyStore ==
    [classes |-> <<[courseId |-> <<>>, className |-> <<SP, "B">>, units |-> <<>>]>>,
     classNames |-> <<<<SP, "B">>>>, updatedAt |-> 0]

\* the payloads run() hands to mergeCourseIntoClassNames
MergeCourses ==
    [courseId : {<<"1">>, <<"2">>}, courseName : {<<>>, <<"B">>, <<"C", SP>>},
     className : {<<>>}, units : UnitLists]

\* the course lists handed to writeSelectedCoursesToClassNamesJson
SelectedCourses ==
    [courseId : {<<>>, <<"1">>, <<"2">>}, courseName : {<<>>, <<"B">>},
     className : {<<>>, <<"C", SP>>}, units : {<<"A">>}]

SelectedLists == {<<>>} \cup {<<c>> : c \in SelectedCourses}
                 \cup {<<c, d>> : c \in SelectedCourses, d \in SelectedCourses}

InitStore ==
    /\ store \in {EmptyStore, LegacyStore}
    /\ RunNotCalled
    /\ ParseIdle
    /\ StoreIdle
    /\ PostIdle
    /\ RaceIdle
    /\ CanvasIdle
    /\ RetrieveIdle
    /\ TagIdle
    /\ MasteryIdle
    /\ ManyIdle

\* mergeCourseIntoClassNames(course, {updatedAt})
Merge ==
    /\ fileWrites < MaxWrites
    /\ \E course \in MergeCourses :
          /\ store' = mergeCourseIntoClassNames(store, course, now)
          /\ incoming' = [op |-> "merge", course |-> course, courses |-> <<>>]
    /\ fileWrites' = fileWrites + 1
    /\ now' = now + 1
    /\ UNCHANGED <<notFile, parseVars, postVars, raceVars, canvasVars, retrieveVars, tagVars, masteryVars, manyVars>>

\* writeSelectedCoursesToClassNamesJson(courses)
WriteSelectedCourses ==
    /\ fileWrites < MaxWrites
    /\ \E courses \in SelectedLists :
          /\ store' = writeSelectedCoursesToClassNamesJson(courses, now)
          /\ incoming' = [op |-> "writeSelected", course |-> NoCourse, courses |-> courses]
    /\ fileWrites' = fileWrites + 1
    /\ now' = now + 1
    /\ UNCHANGED <<notFile, parseVars, postVars, raceVars, canvasVars, retrieveVars, tagVars, masteryVars, manyVars>>

NextStore == Merge \/ WriteSelectedCourses

SpecStore == InitStore /\ [][NextStore]_vars

\* the file as run() alone writes it: absent at first, then merges only
InitMerge ==
    /\ store = EmptyStore
    /\ RunNotCalled
    /\ ParseIdle
    /\ StoreIdle
    /\ PostIdle
    /\ RaceIdle
    /\ CanvasIdle
    /\ RetrieveIdle
    /\ TagIdle
    /\ MasteryIdle
    /\ ManyIdle

NextMerge == Merge

SpecMerge == InitMerge /\ [][NextMerge]_vars


\* ------------------------------------------- POST /api/canvas/concepts
MaxCourses == 2

RECURSIVE Lists(_, _)
Lists(set, n) ==
    IF n = 0 THEN {<<>>}
    ELSE Lists(set, n - 1) \cup {Append(l, x) : l \in Lists(set, n - 1), x \in set}

RawIds == {<<>>, <<"1">>, <<"2", SP>>}

\* request bodies: {courseIds: [...], courses: [...]} or {courseId: ...}
Bodies ==
    [courseIds : Lists(RawIds, MaxCourses), isArray : {TRUE}, courseId : {<<>>},
     courses : {<<>>, <<[courseId |-> <<"1">>, className |-> <<"B", SP>>]>>},
     received : {TRUE}]
    \cup [courseIds : {<<>>}, isArray : {FALSE}, courseId : RawIds, courses : {<<>>},
          received : {TRUE}]

NonEmpty(ids) == SelectSeq(ids, LAMBDA id : id # <<>>)

\* toCourseIds(body)
toCourseIds(body) ==
    IF body.isArray
    THEN NonEmpty([i \in 1..Len(body.courseIds) |-> Trim(body.courseIds[i])])
    ELSE NonEmpty(<<Trim(body.courseId)>>)

Last(set) == CHOOSE i \in set : \A j \in set : j <= i

\* toCourseNameMap(body).get(id): the name, <<>> when the map has none
nameByCourseId(body, id) ==
    LET rows == {i \in 1..Len(body.courses) :
                    Trim(body.courses[i].courseId) = id /\ id # <<>>}
    IN IF rows = {} THEN <<>> ELSE Trim(body.courses[Last(rows)].className)

\* what Promise.allSettled reports for one run()
Pending == [status |-> "pending", value |-> NoCourse, reason |-> NoError]

Fulfilled(v) == [status |-> "fulfilled", value |-> v, reason |-> NoError]

Rejected(e) == [status |-> "rejected", value |-> NoCourse, reason |-> e]

\* the error run() rejects with when list_units.py fails
RunRejections == {Err("", <<"Timed out running", "list_units.py">>)}

\* what list_units.py may print
PostDocuments == {d \in Documents : d.error = "none" /\ Len(d.units) <= 1}

\* the elements of s at the positions in keep, in order
RECURSIVE At(_, _, _)
At(s, keep, n) ==
    IF n = 0 THEN <<>>
    ELSE IF n \in keep THEN Append(At(s, keep, n - 1), s[n]) ELSE At(s, keep, n - 1)

\* lines 112-119: the values of the fulfilled runs
fulfilledCourses(st) ==
    LET kept == At(st, {i \in 1..Len(st) : st[i].status = "fulfilled"}, Len(st))
    IN [i \in 1..Len(kept) |-> kept[i].value]

NO_UNITS == <<"No conceptual units returned yet">>

\* variant: a run that returned no units is not counted as failed
failedCoursesRejectedOnly(ids, st) ==
    LET rejected == {i \in 1..Len(st) : st[i].status = "rejected"}
        entries  == [i \in 1..Len(st) |-> [courseId |-> ids[i], error |-> st[i].reason.message]]
    IN At(entries, rejected, Len(st))

\* lines 113-133: failedCourses
failedCoursesOf(ids, st) ==
    LET rejected == {i \in 1..Len(st) : st[i].status = "rejected"}
        entries  == [i \in 1..Len(st) |-> [courseId |-> ids[i], error |-> st[i].reason.message]]
        courses  == fulfilledCourses(st)
        noUnits  == [i \in 1..Len(courses) |-> [courseId |-> courses[i].courseId, error |-> NO_UNITS]]
    IN At(entries, rejected, Len(st))
       \o At(noUnits, {i \in 1..Len(courses) : Len(courses[i].units) = 0}, Len(courses))

\* lines 146-161: selectedCourses
selectedCourses(body, ids, courses) ==
    [i \in 1..Len(ids) |->
        LET id   == ids[i]
            name == nameByCourseId(body, id)
            have == {k \in 1..Len(courses) : courses[k].courseId = id}
        IN IF have # {}
           THEN [courses[Last(have)] EXCEPT
                    !.className = Or(Or(Or(name, courses[Last(have)].className),
                                        courses[Last(have)].courseName), id)]
           ELSE [courseId |-> id, courseName |-> Or(name, id), className |-> Or(name, id),
                 units |-> <<>>]]

\* lines 135-144: the response when a course failed
errorResponse(failed) ==
    [status |-> 500, error |-> <<"Concept preparation is still in progress or failed">>,
     failedCourses |-> failed, courses |-> <<>>, single |-> FALSE]

\* lines 165-181: the response after the write
okResponse(selected, failed) ==
    [status |-> 200, error |-> <<>>, failedCourses |-> failed,
     courses |-> [i \in 1..Len(selected) |->
                    [courseId |-> selected[i].courseId, courseName |-> selected[i].courseName,
                     units |-> selected[i].units]],
     single |-> Len(selected) = 1]

\* classNames.json as earlier runs of generateConcepts left it
PriorStores ==
    LET other == [courseId |-> <<"3">>, courseName |-> <<"D">>, className |-> <<>>,
                  units |-> <<"A">>]
        same  == [courseId |-> <<"1">>, courseName |-> <<"B">>, className |-> <<>>,
                  units |-> <<>>]
        one   == mergeCourseIntoClassNames(EmptyStore, other, 0)
    IN {EmptyStore, one, mergeCourseIntoClassNames(one, same, 0)}

InitPost ==
    /\ store \in PriorStores
    /\ RunNotCalled
    /\ ParseIdle
    /\ StoreIdle
    /\ PostIdle
    /\ RaceIdle
    /\ CanvasIdle
    /\ RetrieveIdle
    /\ TagIdle
    /\ MasteryIdle
    /\ ManyIdle

\* lines 89-110: the request is read and one run() per course is started
Post ==
    /\ request = NoRequest
    /\ \E body \in Bodies :
          /\ request' = body
          /\ IF toCourseIds(body) = <<>>
             THEN /\ response' = [NoResponse EXCEPT !.status = 400,
                                     !.error = <<"Missing courseId or courseIds">>]
                  /\ settled' = <<>>
             ELSE /\ response' = NoResponse
                  /\ settled' = [i \in 1..Len(toCourseIds(body)) |-> Pending]
    /\ UNCHANGED <<runState, parseVars, incoming, raceVars, canvasVars, retrieveVars, tagVars, masteryVars, manyVars>>

\* run({courseId, className, writeFile: false}) of listConceptualUnits settles
RunSettles ==
    /\ response = NoResponse
    /\ \E i \in 1..Len(settled) :
          /\ settled[i].status = "pending"
          /\ LET id == toCourseIds(request)[i]
             IN \/ \E e \in RunRejections : settled' = [settled EXCEPT ![i] = Rejected(e)]
                \/ \E v \in PostDocuments :
                      settled' = [settled EXCEPT ![i] =
                          Fulfilled(listConceptualUnits(id, nameByCourseId(request, id), v))]
    /\ UNCHANGED <<runState, parseVars, incoming, request, response, raceVars, canvasVars, retrieveVars, tagVars, masteryVars, manyVars>>

\* lines 112-181: after Promise.allSettled
Respond ==
    /\ response = NoResponse
    /\ settled # <<>>
    /\ \A i \in 1..Len(settled) : settled[i].status # "pending"
    /\ LET ids      == toCourseIds(request)
           courses  == fulfilledCourses(settled)
           failed   == failedCoursesOf(ids, settled)
           selected == selectedCourses(request, ids, courses)
       IN IF failed # <<>>
          THEN /\ response' = errorResponse(failed)
               /\ UNCHANGED <<store, fileWrites, now, incoming>>
          ELSE /\ store' = writeSelected(selected, now)
               /\ fileWrites' = fileWrites + 1
               /\ now' = now + 1
               /\ incoming' = [op |-> "writeSelected", course |-> NoCourse,
                               courses |-> selected]
               /\ response' = okResponse(selected, failed)
    /\ UNCHANGED <<notFile, parseVars, request, settled, raceVars, canvasVars, retrieveVars, tagVars, masteryVars, manyVars>>

NextPost == Post \/ RunSettles \/ Respond

SpecPost == InitPost /\ [][NextPost]_vars

\* ------------------------------------------- listConceptualUnits.runMany
\* src/scripts/pythonInterop.js, lines 216-240
\* options.courses: a course may come without a courseId
ManyCourses ==
    {[courseId |-> <<"1">>, className |-> <<"B", SP>>],
     [courseId |-> <<"2", SP>>, className |-> <<>>],
     [courseId |-> <<>>, className |-> <<"D">>]}

\* variant: every run is told to write the file itself
runOptionsWithWrite(course) ==
    [courseId |-> course.courseId, className |-> course.className, writeFile |-> TRUE]

\* lines 223-227: the options runMany passes to run(); writeFile is not
\* among them, and run() reads the absent option as false
runOptions(course) ==
    [courseId |-> course.courseId, className |-> course.className, writeFile |-> FALSE]

MISSING_COURSE_ID == Err("", <<"Missing courseId">>)

\* lines 177-181: run() throws before it starts list_units.py
runStarted(o) == IF Trim(o.courseId) = <<>> THEN Rejected(MISSING_COURSE_ID) ELSE Pending

FirstOf(set) == CHOOSE i \in set : \A j \in set : i <= j

InitMany ==
    /\ store \in PriorStores
    /\ RunNotCalled
    /\ ParseIdle
    /\ StoreIdle
    /\ PostIdle
    /\ RaceIdle
    /\ CanvasIdle
    /\ RetrieveIdle
    /\ TagIdle
    /\ MasteryIdle
    /\ many = NoMany

notMany == <<parseVars, postVars, raceVars, canvasVars, retrieveVars, tagVars, masteryVars>>

\* lines 216-229: runMany starts one run() per course
RunMany ==
    /\ many.pc = "idle"
    /\ \E courses \in Lists(ManyCourses, MaxCourses), w \in BOOLEAN :
          LET runs    == [i \in 1..Len(courses) |-> runStarted(runOptions(courses[i]))]
              thrown1 == {i \in 1..Len(runs) : runs[i].status = "rejected"}
          IN many' = [pc |-> "awaiting", courses |-> courses, writeFile |-> w, runs |-> runs,
                      rejectedBy |-> IF thrown1 = {} THEN 0 ELSE FirstOf(thrown1),
                      results |-> <<>>]
    /\ UNCHANGED <<runState, incoming, notMany>>

\* lines 183-213: list_units.py of one run() returns and the run settles; a
\* run goes on when Promise.all has rejected already
ManyRunSettles ==
    /\ \E i \in 1..Len(many.runs) :
          /\ many.runs[i].status = "pending"
          /\ LET o == runOptions(many.courses[i])
             IN \/ /\ \E e \in RunRejections :
                         many' = [many EXCEPT
                                     !.runs[i] = Rejected(e),
                                     !.rejectedBy = IF @ = 0 THEN i ELSE @]
                   /\ UNCHANGED <<store, fileWrites, now, incoming>>
                \/ \E v \in PostDocuments :
                      LET course == listConceptualUnits(Trim(o.courseId), o.className, v)
                      IN /\ many' = [many EXCEPT !.runs[i] = Fulfilled(course)]
                         /\ IF o.writeFile
                            THEN /\ store' = writeSelected(<<course>>, now)
                                 /\ fileWrites' = fileWrites + 1
                                 /\ now' = now + 1
                                 /\ incoming' = [op |-> "writeSelected", course |-> NoCourse,
                                                 courses |-> <<course>>]
                            ELSE UNCHANGED <<store, fileWrites, now, incoming>>
    /\ UNCHANGED <<notFile, notMany>>

\* line 221: Promise.all rejects with the first rejection
ManyRejects ==
    /\ many.pc = "awaiting"
    /\ many.rejectedBy # 0
    /\ many' = [many EXCEPT !.pc = "rejected"]
    /\ UNCHANGED <<runState, incoming, notMany>>

\* lines 231-239: every run has fulfilled
ManyResolves ==
    /\ many.pc = "awaiting"
    /\ \A i \in 1..Len(many.runs) : many.runs[i].status = "fulfilled"
    /\ LET results == [i \in 1..Len(many.runs) |-> many.runs[i].value]
       IN /\ many' = [many EXCEPT !.pc = "resolved", !.results = results]
          /\ IF many.writeFile
             THEN /\ store' = writeSelected(results, now)
                  /\ fileWrites' = fileWrites + 1
                  /\ now' = now + 1
                  /\ incoming' = [op |-> "writeSelected", course |-> NoCourse,
                                  courses |-> results]
             ELSE UNCHANGED <<store, fileWrites, now, incoming>>
    /\ UNCHANGED <<notFile, notMany>>

NextMany == RunMany \/ ManyRunSettles \/ ManyRejects \/ ManyResolves

SpecMany == InitMany /\ [][NextMany]_vars


\* ----------------------- two course-runs for one course, in two processes
\* Each run is followed from the end of its final read-back: lines 145-157.
RaceCourseId == <<"1">>

RaceOptions ==
    [courseId |-> RaceCourseId, courseName |-> <<>>, allowExistingFallback |-> TRUE,
     preferExisting |-> FALSE, writeFile |-> TRUE]

\* what list_units.py may print for the course
RaceDocuments == {d \in ObjectOutputs : d.courseId = <<>> /\ d.error = "none"}

NotStarted == [pc |-> "idle", payload |-> NoResult, existing |-> EmptyStore]

\* classNames.json before the runs: absent, or holding another course
RaceStores ==
    {EmptyStore,
     mergeCourseIntoClassNames(EmptyStore,
        [courseId |-> <<"2">>, courseName |-> <<"B">>, units |-> <<"A">>], 0)}

InitRace ==
    /\ store \in RaceStores
    /\ RunNotCalled
    /\ ParseIdle
    /\ StoreIdle
    /\ PostIdle
    /\ racers = <<NotStarted, NotStarted>>
    /\ writes = <<>>
    /\ CanvasIdle
    /\ RetrieveIdle
    /\ TagIdle
    /\ MasteryIdle
    /\ ManyIdle

\* run() is called
RaceStart ==
    /\ \E i \in 1..Len(racers) :
          /\ racers[i].pc = "idle"
          /\ racers' = [racers EXCEPT ![i].pc = "running"]
    /\ UNCHANGED <<runState, parseVars, incoming, postVars, writes, canvasVars, retrieveVars, tagVars, masteryVars, manyVars>>

\* lines 145-151: the final read-back returns and the payload is built
RaceFinish ==
    /\ \E i \in 1..Len(racers), doc \in RaceDocuments :
          /\ racers[i].pc = "running"
          /\ racers' = [racers EXCEPT
                ![i].pc = "merge",
                ![i].payload = PayloadOf(listConceptualUnits(RaceCourseId, <<>>, doc),
                                         RaceOptions, now)]
    /\ now' = now + 1
    /\ UNCHANGED <<notFile, store, fileWrites, parseVars, incoming, postVars, writes, canvasVars, retrieveVars, tagVars, masteryVars, manyVars>>

\* line 38: mergeCourseIntoClassNames reads the file
RaceLoad ==
    /\ \E i \in 1..Len(racers) :
          /\ racers[i].pc = "merge"
          /\ racers' = [racers EXCEPT ![i].pc = "write", ![i].existing = store]
    /\ UNCHANGED <<runState, parseVars, incoming, postVars, writes, canvasVars, retrieveVars, tagVars, masteryVars, manyVars>>

\* lines 39-62: mergeCourseIntoClassNames merges into what it read and writes
RaceWrite ==
    /\ \E i \in 1..Len(racers) :
          /\ racers[i].pc = "write"
          /\ store' = mergeCourseIntoClassNames(racers[i].existing, racers[i].payload,
                                                racers[i].payload.updatedAt)
          /\ incoming' = [op |-> "merge", courses |-> <<>>,
                          course |-> [courseId |-> racers[i].payload.courseId,
                                      courseName |-> racers[i].payload.courseName,
                                      className |-> <<>>,
                                      units |-> racers[i].payload.units]]
          /\ racers' = [racers EXCEPT ![i].pc = "done"]
          /\ writes' = Append(writes, i)
    /\ fileWrites' = fileWrites + 1
    /\ UNCHANGED <<notFile, now, parseVars, postVars, canvasVars, retrieveVars, tagVars, masteryVars, manyVars>>

NextRace == RaceStart \/ RaceFinish \/ RaceLoad \/ RaceWrite

SpecRace == InitRace /\ [][NextRace]_vars


\* ------------------------------ course-runs for several courses, one process
\* Each run is followed from the end of its final read-back.  Between the
\* await of that read and the return of run() there is no await, so the
\* payload, the merge and the write are one step of the event loop.
ConcurrentCourseIds == << <<"1">>, <<"2">> >>

\* what list_units.py may print for a course
ConcurrentDocuments == {d \in ObjectOutputs : d.error = "none"}

ConcurrentOptions(i) == [RaceOptions EXCEPT !.courseId = ConcurrentCourseIds[i]]

InitConcurrent ==
    /\ store \in RaceStores
    /\ RunNotCalled
    /\ ParseIdle
    /\ StoreIdle
    /\ PostIdle
    /\ racers = [i \in 1..Len(ConcurrentCourseIds) |-> NotStarted]
    /\ writes = <<>>
    /\ CanvasIdle
    /\ RetrieveIdle
    /\ TagIdle
    /\ MasteryIdle
    /\ ManyIdle

\* lines 145-157: the final read-back returns, the payload is built and merged
RunMerges ==
    /\ \E i \in 1..Len(racers), doc \in ConcurrentDocuments :
          LET payload == PayloadOf(listConceptualUnits(ConcurrentCourseIds[i], <<>>, doc),
                                   ConcurrentOptions(i), now)
          IN /\ racers[i].pc = "running"
             /\ store' = mergeCourseIntoClassNames(store, payload, payload.updatedAt)
             /\ racers' = [racers EXCEPT ![i].pc = "done", ![i].payload = payload,
                                         ![i].existing = store]
             /\ incoming' = [op |-> "merge", courses |-> <<>>,
                             course |-> [courseId |-> payload.courseId,
                                         courseName |-> payload.courseName,
                                         className |-> <<>>,
                                         units |-> payload.units]]
             /\ writes' = Append(writes, i)
    /\ fileWrites' = fileWrites + 1
    /\ now' = now + 1
    /\ UNCHANGED <<notFile, parseVars, postVars, canvasVars, retrieveVars, tagVars, masteryVars, manyVars>>

NextConcurrent == RaceStart \/ RunMerges

SpecConcurrent == InitConcurrent /\ [][NextConcurrent]_vars

\* ------------------------------------------ fetchCanvasData (getCanvas)
MaxPages == 2

\* per_page of getAllPages
PER_PAGE == 100

\* what canvasGet can throw: an HTTP status, or 0 for an error without one
ErrorStatuses == {0, 401, 403, 404, 500}

\* variant: a 404 is not an endpoint to skip
IsAccessErrorWithout404(status) == status \in {401, 403}

\* err?.status === 401 || err?.status === 403 || err?.status === 404
IsAccessError(status) == status \in {401, 403, 404}

\* lengths of the chunk one page request answers with
ChunkLengths == {0, 1, PER_PAGE}

\* courses as Canvas lists them; workflow_state "" stands for an absent one
course1 == [id |-> <<"1">>, name |-> <<"B">>, workflow_state |-> "available"]

blankCourse == [id |-> <<"2">>, name |-> <<SP>>, workflow_state |-> "completed"]

deletedCourse == [id |-> <<"3">>, name |-> <<"D">>, workflow_state |-> "deleted"]

course1Again == [id |-> <<"1">>, name |-> <<"C", SP>>, workflow_state |-> ""]

\* what a listing of /courses answers with
CourseListings ==
    { <<>>, <<course1>>, <<deletedCourse>>, <<course1, blankCourse>>,
      <<deletedCourse, course1Again>>, <<course1Again, course1>>,
      <<blankCourse, deletedCourse, course1>> }

validStates == {"available", "completed"}

activeCoursesOf(listed) ==
    SelectSeq(listed, LAMBDA course :
        ~(course.workflow_state # "" /\ course.workflow_state \notin validStates))

\* the filter over a Set of seen courseIds: the first entry of each id stays
RECURSIVE uniqueByCourseId(_)
uniqueByCourseId(list) ==
    IF list = <<>> THEN <<>>
    ELSE LET init == uniqueByCourseId(SubSeq(list, 1, Len(list) - 1))
             last == list[Len(list)]
         IN IF \E i \in 1..Len(init) : init[i].courseId = last.courseId
            THEN init ELSE Append(init, last)

canvasReturn(list) ==
    LET unique == uniqueByCourseId(list)
    IN [set |-> TRUE, classes |-> unique,
        classNames |-> [i \in 1..Len(unique) |-> unique[i].className]]

\* getAllPages has sent its first request
FirstPage == [state |-> "pending", page |-> 1, all |-> 0, status |-> 0]

EndpointNames == {"assignments", "files"}

Settled(ep) == ep.state \in {"ok", "skipped"}

\* the body of the loop after its Promise.all
pushed(list, course, eps) ==
    LET name == Trim(course.name)
    IN IF (eps.assignments.all > 0 \/ eps.files.all > 0) /\ Len(name) > 0
       THEN Append(list, [courseId |-> course.id, className |-> name])
       ELSE list

InitCanvas ==
    /\ store = EmptyStore
    /\ RunNotCalled
    /\ ParseIdle
    /\ StoreIdle
    /\ PostIdle
    /\ RaceIdle
    /\ cvPc = "listing"
    /\ CanvasAtStart
    /\ RetrieveIdle
    /\ TagIdle
    /\ MasteryIdle
    /\ ManyIdle

\* the listing has answered with courses: the loop starts, or with no active
\* course fetchCanvasData returns at once
Listed(listed) ==
    /\ canvasCourses' = listed
    /\ IF activeCoursesOf(listed) = <<>>
       THEN /\ cvPc' = "done"
            /\ canvasResult' = canvasReturn(<<>>)
            /\ UNCHANGED <<cvIndex, endpoints>>
       ELSE /\ cvPc' = "courses"
            /\ cvIndex' = 1
            /\ endpoints' = [assignments |-> FirstPage, files |-> FirstPage]
            /\ UNCHANGED canvasResult
    /\ UNCHANGED failure

ListingFails(status) ==
    /\ cvPc' = "failed"
    /\ failure' = [where |-> "courses", status |-> status]
    /\ UNCHANGED <<canvasCourses, cvIndex, endpoints, canvasResult>>

\* getAllPages('/courses', {state[]: ...}): its pages are taken as one answer
ListCourses ==
    /\ cvPc = "listing"
    /\ \/ \E status \in ErrorStatuses : ListingFails(status)
       \/ \E listed \in CourseListings :
            IF listed = <<>>
            THEN /\ cvPc' = "relisting"
                 /\ UNCHANGED <<canvasCourses, cvIndex, endpoints, canvasResult, failure>>
            ELSE Listed(listed)
    /\ UNCHANGED <<classesWithIds, visited>>
    /\ UNCHANGED <<runState, parseVars, incoming, postVars, raceVars, retrieveVars, tagVars, masteryVars, manyVars>>

\* getAllPages('/courses') when the filtered listing was empty
RelistCourses ==
    /\ cvPc = "relisting"
    /\ \/ \E status \in ErrorStatuses : ListingFails(status)
       \/ \E listed \in CourseListings : Listed(listed)
    /\ UNCHANGED <<classesWithIds, visited>>
    /\ UNCHANGED <<runState, parseVars, incoming, postVars, raceVars, retrieveVars, tagVars, masteryVars, manyVars>>

\* one page request of an endpoint's getAllPages answers with a chunk
PageArrives ==
    /\ cvPc = "courses"
    /\ \E name \in EndpointNames, n \in ChunkLengths :
          LET ep == endpoints[name]
          IN /\ ep.state = "pending"
             /\ n = PER_PAGE => ep.page < MaxPages
             /\ endpoints' = [endpoints EXCEPT ![name] =
                    IF n = 0 THEN [ep EXCEPT !.state = "ok"]
                    ELSE IF n < PER_PAGE
                         THEN [ep EXCEPT !.state = "ok", !.all = ep.all + n]
                    ELSE [ep EXCEPT !.all = ep.all + n, !.page = ep.page + 1]]
    /\ UNCHANGED <<cvPc, canvasCourses, cvIndex, classesWithIds, canvasResult, failure, visited>>
    /\ UNCHANGED <<runState, parseVars, incoming, postVars, raceVars, retrieveVars, tagVars, masteryVars, manyVars>>

\* one page request throws: safeGetAllPages answers [] for an access error and
\* rethrows any other, which rejects the Promise.all and fetchCanvasData
PageFails ==
    /\ cvPc = "courses"
    /\ \E name \in EndpointNames, status \in ErrorStatuses :
          LET ep == endpoints[name]
          IN /\ ep.state = "pending"
             /\ IF IsAccessError(status)
                THEN /\ endpoints' = [endpoints EXCEPT ![name] =
                             [ep EXCEPT !.state = "skipped", !.all = 0, !.status = status]]
                     /\ UNCHANGED <<cvPc, failure>>
                ELSE /\ endpoints' = [endpoints EXCEPT ![name] =
                             [ep EXCEPT !.state = "failed", !.status = status]]
                     /\ cvPc' = "failed"
                     /\ failure' = [where |-> name, status |-> status]
    /\ UNCHANGED <<canvasCourses, cvIndex, classesWithIds, canvasResult, visited>>
    /\ UNCHANGED <<runState, parseVars, incoming, postVars, raceVars, retrieveVars, tagVars, masteryVars, manyVars>>

\* both endpoints of the course have answered: the rest of the loop body, then
\* the next course or the return
CourseDone ==
    /\ cvPc = "courses"
    /\ \A name \in EndpointNames : Settled(endpoints[name])
    /\ LET active == activeCoursesOf(canvasCourses)
           list   == pushed(classesWithIds, active[cvIndex], endpoints)
       IN /\ classesWithIds' = list
          /\ visited' = Append(visited, endpoints)
          /\ IF cvIndex < Len(active)
             THEN /\ cvIndex' = cvIndex + 1
                  /\ endpoints' = [assignments |-> FirstPage, files |-> FirstPage]
                  /\ UNCHANGED <<cvPc, canvasResult>>
             ELSE /\ cvPc' = "done"
                  /\ canvasResult' = canvasReturn(list)
                  /\ UNCHANGED <<cvIndex, endpoints>>
    /\ UNCHANGED <<canvasCourses, failure>>
    /\ UNCHANGED <<runState, parseVars, incoming, postVars, raceVars, retrieveVars, tagVars, masteryVars, manyVars>>

NextCanvas == ListCourses \/ RelistCourses \/ PageArrives \/ PageFails \/ CourseDone

SpecCanvas == InitCanvas /\ [][NextCanvas]_vars


\* ------------------------------------------------- the Retrieval Service
MaxCandidates == 4

\* similarities in hundredths
DEFAULT_THRESHOLD == 25

DEFAULT_TOP_K == 8

\* fewer surviving chunks than this is insufficient evidence
MIN_EVIDENCE == 2

Similarities == {10, 20, 25, 50, 90}

\* chunk i of the course with its cosine similarity to the query
CandidateLists ==
    {[i \in 1..Len(sims) |-> [id |-> i, sim |-> sims[i]]] :
        sims \in Lists(Similarities, MaxCandidates)}

\* sort descending by similarity
RECURSIVE rankBySimilarity(_)
rankBySimilarity(chunks) ==
    IF chunks = <<>> THEN <<>>
    ELSE LET best == CHOOSE i \in 1..Len(chunks) :
                        \A j \in 1..Len(chunks) :
                            \/ chunks[j].sim < chunks[i].sim
                            \/ chunks[j].sim = chunks[i].sim /\ i <= j
             rest == [k \in 1..(Len(chunks) - 1) |->
                        IF k < best THEN chunks[k] ELSE chunks[k + 1]]
         IN <<chunks[best]>> \o rankBySimilarity(rest)

takeTop(ranked, k) == SubSeq(ranked, 1, IF Len(ranked) < k THEN Len(ranked) ELSE k)

\* variant: a chunk exactly at the threshold is discarded too
survivesAbove(chunk, threshold) == chunk.sim > threshold

\* a chunk below the threshold is discarded
survives(chunk, threshold) == chunk.sim >= threshold

retrieve(q) ==
    LET top  == takeTop(rankBySimilarity(q.candidates), q.topK)
        kept == SelectSeq(top, LAMBDA chunk : survives(chunk, q.threshold))
    IN IF Len(kept) < MIN_EVIDENCE
       THEN [outcome |-> "insufficient-evidence", chunks |-> <<>>]
       ELSE [outcome |-> "result", chunks |-> kept]

InitRetrieve ==
    /\ query \in [candidates : CandidateLists, topK : {1, 2, 3, DEFAULT_TOP_K},
                  threshold : {DEFAULT_THRESHOLD}]
    /\ retrieved = NotRetrieved
    /\ store = EmptyStore
    /\ RunNotCalled
    /\ ParseIdle
    /\ StoreIdle
    /\ PostIdle
    /\ RaceIdle
    /\ CanvasIdle
    /\ TagIdle
    /\ MasteryIdle
    /\ ManyIdle

Retrieve ==
    /\ retrieved = NotRetrieved
    /\ retrieved' = retrieve(query)
    /\ UNCHANGED <<query, runState, parseVars, incoming, postVars, raceVars, canvasVars, tagVars, masteryVars, manyVars>>

NextRetrieve == Retrieve

SpecRetrieve == InitRetrieve /\ [][NextRetrieve]_vars


\* ------------------------------------------------------ the Chunk Tagger
MaxChunks == 3

MaxTagRuns == 2

\* the course's chunk set
ChunkIds == 1..MaxChunks

\* what the classification capability answers for one chunk: zero or more
\* (unit, topic, subtopic) assignments
Classifications == {{}, {"u1/t1/s1"}, {"u1/t1/s1", "u2/t1/s1"}}

\* the chunks of the batch that starts at chunk `first`
batchOf(first, size) == {c \in ChunkIds : c >= first /\ c < first + size}

\* the assignments a batch yields, given the labels of each of its chunks
assignmentsOf(labels, run) ==
    UNION {{[chunk |-> c, node |-> n, run |-> run] : n \in labels[c]} : c \in DOMAIN labels}

\* variant: each batch is written to the store as it is classified
storedAfterBatchIncremental(stored, produced, run) ==
    {a \in stored : a.run = run} \cup produced

\* a classified batch is held back: the store keeps the previous set
storedAfterBatch(stored, produced, run) == stored

\* on full completion: delete the course's assignments, insert the run's
replaceAssignments(stored, produced) == produced

InitTag ==
    /\ tagPc = "idle" /\ tagRun = 0 /\ batchSize = 0 /\ nextChunk = 0
    /\ tagged = {} /\ assignments = {} /\ preRun = {}
    /\ store = EmptyStore
    /\ RunNotCalled
    /\ ParseIdle
    /\ StoreIdle
    /\ PostIdle
    /\ RaceIdle
    /\ CanvasIdle
    /\ RetrieveIdle
    /\ MasteryIdle
    /\ ManyIdle

notTagger == <<runState, parseVars, incoming, postVars, raceVars, canvasVars, retrieveVars,
              masteryVars, manyVars>>

\* a tagging run starts for the course
TagStart ==
    /\ tagPc \in {"idle", "done", "failed"}
    /\ tagRun < MaxTagRuns
    /\ tagPc' = "tagging"
    /\ tagRun' = tagRun + 1
    /\ \E size \in 1..2 : batchSize' = size
    /\ nextChunk' = 1
    /\ tagged' = {}
    /\ preRun' = assignments
    /\ UNCHANGED assignments
    /\ UNCHANGED notTagger

\* the next batch is classified
TagBatch ==
    /\ tagPc = "tagging"
    /\ nextChunk <= MaxChunks
    /\ \E labels \in [batchOf(nextChunk, batchSize) -> Classifications] :
          LET produced == assignmentsOf(labels, tagRun)
          IN /\ tagged' = tagged \cup produced
             /\ assignments' = storedAfterBatch(assignments, tagged \cup produced, tagRun)
    /\ nextChunk' = nextChunk + batchSize
    /\ UNCHANGED <<tagPc, tagRun, batchSize, preRun>>
    /\ UNCHANGED notTagger

\* the classification of the next batch fails: the run is aborted
TagBatchFails ==
    /\ tagPc = "tagging"
    /\ nextChunk <= MaxChunks
    /\ tagPc' = "failed"
    /\ UNCHANGED <<tagRun, batchSize, nextChunk, tagged, assignments, preRun>>
    /\ UNCHANGED notTagger

\* every batch is classified: the course's assignments are replaced
TagComplete ==
    /\ tagPc = "tagging"
    /\ nextChunk > MaxChunks
    /\ assignments' = replaceAssignments(assignments, tagged)
    /\ tagPc' = "done"
    /\ UNCHANGED <<tagRun, batchSize, nextChunk, tagged, preRun>>
    /\ UNCHANGED notTagger

NextTag == TagStart \/ TagBatch \/ TagBatchFails \/ TagComplete

SpecTag == InitTag /\ [][NextTag]_vars

\* ================================================================ mastery
\* src/unnamed/part_014, mergeMastery (lines 49-69). Scores are JavaScript
\* numbers, that is IEEE 754 binary64 values; the blend multiplies and adds
\* them in that arithmetic and hands the sum to Math.round. Every value that
\* occurs is a multiple of 2^-54, so a number is held as its count of 2^-54,
\* in four limbs of 16 bits, lowest first.
LIMB == 65536

\* the binary64 value of the literal 0.3: 0x13333333333333 * 2^-54
POINT_THREE == <<13107, 13107, 13107, 19>>

\* the binary64 value of the literal 0.7: 0x16666666666666 * 2^-53
POINT_SEVEN == <<52428, 52428, 52428, 44>>

RECURSIVE bitLength(_)
bitLength(k) == IF k = 0 THEN 0 ELSE 1 + bitLength(k \div 2)

RECURSIVE pow2(_)
pow2(s) == IF s = 0 THEN 1 ELSE 2 * pow2(s - 1)

carry(n) ==
    LET m2 == n[2] + n[1] \div LIMB
        m3 == n[3] + m2 \div LIMB
    IN <<n[1] % LIMB, m2 % LIMB, m3 % LIMB, n[4] + m3 \div LIMB>>

\* the result of an operation is the binary64 nearest to the exact result, a
\* tie going to the even significand; a binary64 has 53 significant bits
roundToDouble(n) ==
    LET s == bitLength(n[4]) + 48 - 53
    IN IF s <= 0 THEN n
       ELSE LET unit == pow2(s)
                r    == n[1] % unit
                odd  == (n[1] \div unit) % 2 = 1
            IN IF 2 * r > unit \/ (2 * r = unit /\ odd)
               THEN carry(<<n[1] - r + unit, n[2], n[3], n[4]>>)
               ELSE <<n[1] - r, n[2], n[3], n[4]>>

\* k * d for an integer k
times(k, d) == roundToDouble(carry(<<k * d[1], k * d[2], k * d[3], k * d[4]>>))

plus(a, b) == roundToDouble(carry(<<a[1] + b[1], a[2] + b[2], a[3] + b[3], a[4] + b[4]>>))

\* Math.round: the nearest integer, a half going up; 1 is 2^54 counts, which
\* is 64 in the top limb
MathRound(n) == n[4] \div 64 + (IF n[4] % 64 >= 32 THEN 1 ELSE 0)

\* line 62 in the arithmetic of the reals
blendExactly(old, score) == (3 * old + 7 * score + 5) \div 10

\* line 62: Math.round(old * 0.3 + score * 0.7)
blend(old, score) == MathRound(plus(times(old, POINT_THREE), times(score, POINT_SEVEN)))

MasteryTopics == {"t1", "t2"}

Scores == {0, 1, 6, 50, 100}

\* existing[tid] of a topic the record does not hold is undefined
ABSENT == -1

ScoreMaps == [MasteryTopics -> Scores \cup {ABSENT}]

\* existing may be undefined
ExistingScores ==
    {[defined |-> FALSE, scores |-> [t \in MasteryTopics |-> ABSENT]]}
    \cup {[defined |-> TRUE, scores |-> m] : m \in ScoreMaps}

mergeMastery(existing, incomingScores, mode) ==
    IF ~existing.defined \/ mode = "diagnostic"
    THEN incomingScores
    ELSE [tid \in MasteryTopics |->
            IF incomingScores[tid] = ABSENT THEN existing.scores[tid]
            ELSE IF existing.scores[tid] # ABSENT
                 THEN blend(existing.scores[tid], incomingScores[tid])
                 ELSE incomingScores[tid]]

InitMastery ==
    /\ store = EmptyStore
    /\ RunNotCalled
    /\ ParseIdle
    /\ StoreIdle
    /\ PostIdle
    /\ RaceIdle
    /\ CanvasIdle
    /\ RetrieveIdle
    /\ TagIdle
    /\ mastery \in [pc : {"called"}, mode : {"diagnostic", "practice"},
                    existing : ExistingScores, incoming : ScoreMaps,
                    merged : {[t \in MasteryTopics |-> ABSENT]}]
    /\ ManyIdle

MergeMastery ==
    /\ mastery.pc = "called"
    /\ mastery' = [mastery EXCEPT
                      !.pc = "returned",
                      !.merged = mergeMastery(mastery.existing, mastery.incoming, mastery.mode)]
    /\ UNCHANGED <<runState, parseVars, incoming, postVars, raceVars, canvasVars,
                   retrieveVars, tagVars, manyVars>>

NextMastery == MergeMastery

SpecMastery == InitMastery /\ [][NextMastery]_vars


\* ================================================================ claims
\* What a read-back or a build returned, read off the parsed document.
UnitsIn(v) == IF v.kind \in {"object", "array"} THEN v.units ELSE <<>>

Returned(stage) == pc = stage /\ ret.status = "ok"

Failed(stage) == pc = stage /\ ret.status = "failed"

Started(stage) == stage \in Range(trace)

\* C1: when the initial read-back returns at least one unit, the run resolves
\* with those units in that step; build_lesson_plan.py, tag_chunks.py and any
\* further read-back are never started, and nothing more happens after the run
\* is done.
C1_ShortCircuit ==
    /\ [][(Returned("initial_read") /\ Len(UnitsIn(ret.value)) > 0)
            => /\ pc' = "done" /\ outcome' = "resolved"
               /\ result'.units = UnitsIn(ret.value)
               /\ ~result'.hasWarning
               /\ trace' = <<"initial_read">>
               /\ procs' = {}]_vars
    /\ [][pc = "done" => (trace' = trace /\ procs' = procs)]_vars

C1_Witness ==
    /\ pc = "done" /\ outcome = "resolved"
    /\ trace = <<"initial_read">>
    /\ result.units # <<>> /\ ~result.hasWarning

PipelineOrder == <<"initial_read", "build", "tag", "final_read">>

MainTrace == SelectSeq(trace, LAMBDA st : st # "fallback_read")

TraceInOrder ==
    \E first \in 1..2 :
        /\ Len(MainTrace) <= Len(PipelineOrder) - first + 1
        /\ MainTrace = SubSeq(PipelineOrder, first, first + Len(MainTrace) - 1)

\* C2: the stages of a run are started in the order initial read, build, tag,
\* final read-back, one at a time: tag_chunks.py is started only when the build
\* has closed and returned an object with at least one unit, the final read-back
\* only when tagging has closed and returned no error, and at most one process
\* of the run is alive at any time.
C2_StrictSequence ==
    /\ [](Cardinality(procs) <= 1 /\ TraceInOrder)
    /\ [][(~Started("tag") /\ "tag" \in Range(trace'))
            => /\ Returned("build") /\ ret.value.kind = "object" /\ Len(ret.value.units) >= 1
               /\ completions["build"] = 1 /\ procs = {}]_vars
    /\ [][(~Started("final_read") /\ "final_read" \in Range(trace'))
            => /\ Returned("tag")
               /\ ~(ret.value.kind = "object" /\ ret.value.error # "none")
               /\ completions["tag"] = 1 /\ procs = {}]_vars
    /\ [][(~Started("build") /\ "build" \in Range(trace'))
            => (pc = "start" \/ (pc = "initial_read" /\ ret.status # "none" /\ procs = {}))]_vars

C2_Witness ==
    /\ trace = PipelineOrder
    /\ pc = "final_read" /\ child.phase = "running" /\ Cardinality(procs) = 1


\* C3: with fallback enabled and a non-empty courseId the run never rejects,
\* whichever of its invocations fail: when it is done it has resolved with a
\* result object.
C3_NeverRejects ==
    (opts.allowExistingFallback /\ Trim(opts.courseId) # <<>>)
        => /\ outcome # "rejected" /\ thrown = NoError
           /\ (pc = "done" => outcome = "resolved")

C3_Witness ==
    /\ opts.allowExistingFallback
    /\ pc = "done" /\ outcome = "resolved"
    /\ {"initial_read", "final_read", "fallback_read"} \subseteq failedStages

MainStages == {"build", "tag", "final_read"}

\* C4: with fallback disabled, a failure of the build, of tagging or of the
\* final read-back rejects the run with that error in the same step; the
\* fallback read is never started and classNames.json is not written.
C4_FailurePropagates ==
    /\ [](~opts.allowExistingFallback
            => /\ ~Started("fallback_read")
               /\ (failedStages \cap MainStages # {}
                     => pc = "done" /\ outcome = "rejected" /\ fileWrites = 0))
    /\ [][(~opts.allowExistingFallback /\ \E st \in MainStages : Failed(st))
            => /\ pc' = "done" /\ outcome' = "rejected" /\ thrown' = ret.error
               /\ store' = store /\ fileWrites' = fileWrites /\ trace' = trace]_vars
    /\ [][(/\ ~opts.allowExistingFallback
           /\ \/ Returned("build") /\ (ret.value.kind # "object" \/ ret.value.units = <<>>)
              \/ Returned("tag") /\ ret.value.kind = "object" /\ ret.value.error # "none")
            => /\ pc' = "done" /\ outcome' = "rejected" /\ thrown'.set
               /\ store' = store /\ fileWrites' = fileWrites /\ trace' = trace]_vars

C4_Witness ==
    /\ ~opts.allowExistingFallback /\ opts.writeFile
    /\ pc = "done" /\ outcome = "rejected"
    /\ "final_read" \in failedStages /\ thrown.set

\* C5 as stated: every result returned through FALLBACK has an empty units list
\* and a non-empty warning.
C5_AsStated ==
    (pc = "done" /\ outcome = "resolved" /\ result.hasWarning)
        => (result.units = <<>> /\ result.warning # <<>>)

\* The main path stopped because tag_chunks.py itself returned an error value.
TagReportedError ==
    /\ Len(trace) >= 2 /\ trace[Len(trace) - 1] = "tag"
    /\ "tag" \notin failedStages

\* C5, amended: a result returned through FALLBACK carries a warning and the
\* units of the fallback read (none when that read failed or found none); the
\* warning is non-empty unless the only failure of the run is an error value
\* returned by tag_chunks.py.  So a failed build with no prior structure gives
\* empty units and a non-empty warning.
C5_FallbackResult ==
    [][(pc = "fallback_read" /\ ret.status # "none")
         => /\ pc' = "done" /\ outcome' = "resolved" /\ result'.hasWarning
            /\ result'.units = (IF ret.status = "ok" THEN UnitsIn(ret.value) ELSE <<>>)
            /\ (result'.warning = <<>>
                  => /\ TagReportedError
                     /\ ret.status = "ok"
                     /\ "initial_read" \notin failedStages)]_vars

C5_Witness ==
    /\ pc = "done" /\ outcome = "resolved" /\ result.hasWarning
    /\ result.units # <<>> /\ result.warning # <<>>
    /\ Started("build") /\ ~Started("tag")


CountSep(w) == Cardinality({i \in 1..Len(w) : w[i] = SEP})

Bit(b) == IF b THEN 1 ELSE 0

\* C6: the warning of a fallback result has one part per failure of the run:
\* the part for the initial read is there exactly when the initial read failed,
\* the part for the fallback read exactly when the fallback read failed, and
\* there is one more part, which holds the message of the main-path failure.
C6_WarningParts ==
    (pc = "done" /\ result.hasWarning)
        => LET w == result.warning
               initialFailed == "initial_read" \in failedStages
               fallbackFailed == "fallback_read" \in failedStages
           IN /\ (INITIAL_FAILED \in Range(w)) <=> initialFailed
              /\ (FALLBACK_FAILED \in Range(w)) <=> fallbackFailed
              /\ initialFailed => (w[1] = INITIAL_FAILED /\ Len(w) > 1 /\ w[2] # SEP)
              /\ fallbackFailed => w[Len(w)] \notin {FALLBACK_FAILED, SEP}
              /\ CountSep(w) = Bit(initialFailed) + Bit(fallbackFailed)
              /\ generationError.set
              /\ Range(generationError.message) \subseteq Range(w)

C6_Witness ==
    /\ pc = "done" /\ result.hasWarning
    /\ {"initial_read", "tag", "fallback_read"} \subseteq failedStages
    /\ CountSep(result.warning) = 2

BuildReturnedNoUnits ==
    Returned("build") /\ (ret.value.kind # "object" \/ ret.value.units = <<>>)

\* C7: a build that returns no units (an empty units list, or no object with a
\* units list at all) is a failure of the main path: tag_chunks.py is not
\* started then or later, and the run goes to the fallback read, or rejects
\* when fallback is disabled.
C7_ZeroUnitsIsFailure ==
    /\ [][BuildReturnedNoUnits
            => /\ generationError'.set
               /\ "tag" \notin Range(trace')
               /\ IF opts.allowExistingFallback
                  THEN pc' = "fallback_read" /\ trace' = Append(trace, "fallback_read")
                  ELSE pc' = "done" /\ outcome' = "rejected" /\ trace' = trace]_vars
    /\ [][(generationError.set /\ ~Started("tag")) => "tag" \notin Range(trace')]_vars

C7_Witness ==
    /\ pc = "done" /\ outcome = "resolved"
    /\ generationError.message = <<"Failed to build a lesson plan (no units)">>
    /\ Started("build") /\ ~Started("tag") /\ "build" \notin failedStages

TimeoutMessage(c) == <<"Timed out running", ScriptOf(c.stage)>>

\* C8: every invocation runs under a timer.  If the timer fires before the
\* process closes, the process is killed and the invocation is rejected with
\* the timeout error whatever the exit status and whatever stdout holds, and
\* nothing is parsed or returned; if the process closes first the timer is
\* cleared and the invocation does not fail with a timeout.
C8_Timeout ==
    /\ [](child.phase = "running" => child.timer \in {"armed", "fired"})
    /\ [](child.timer = "fired" => child.killed)
    /\ [](child.phase = "closed"
            => IF child.timer = "fired"
               THEN /\ child.settled = "rejected"
                    /\ child.error.message = TimeoutMessage(child)
               ELSE /\ child.timer = "cleared"
                    /\ child.settled = "rejected"
                         => child.error.message # TimeoutMessage(child))
    /\ [][(child.phase = "closed" /\ child.timer = "fired")
            => /\ ret'.status = "failed" /\ ret'.value = NoOutput
               /\ ret'.error.message = TimeoutMessage(child)]_vars
    /\ [][(child.phase = "closed" /\ child.timer = "cleared")
            => (ret'.status = "failed" => ret'.error.message # TimeoutMessage(child))]_vars

C8_Witness ==
    /\ child.phase = "closed" /\ child.timer = "fired" /\ child.killed
    /\ child.stdout = "json"
    /\ child.settled = "rejected"

\* C9: the candidates are tried in the order python, python3, py -3.  A later
\* candidate runs only after every earlier one failed to spawn with ENOENT; a
\* candidate that ends any other way ends the invocation, with its error or
\* the parse of its output, and no further candidate is spawned; when the last
\* candidate is unavailable too the invocation fails with that ENOENT error.
C9_BackendOrder ==
    /\ [](child.phase = "running"
            => /\ child.cand = Len(tried) + 1 /\ child.cand <= 3
               /\ \A i \in 1..Len(tried) : tried[i] = "ENOENT")
    /\ [][(child.awaited /\ child.settled # "pending")
            => IF tried[Len(tried)] = "ENOENT"
               THEN IF child.cand < 3
                    THEN /\ child'.phase = "running" /\ child'.stage = child.stage
                         /\ child'.cand = child.cand + 1
                         /\ ret' = NoRet /\ pc' = pc
                    ELSE /\ ret'.status = "failed" /\ ret'.error = child.error
                         /\ ret'.error.code = "ENOENT"
                         /\ child' = NoChild /\ procs' = {}
               ELSE /\ child' = NoChild /\ procs' = {}
                    /\ ret'.status # "none"
                    /\ child.settled = "rejected"
                         => (ret'.status = "failed" /\ ret'.error = child.error)
                    /\ child.settled = "resolved"
                         => (ret'.status = "ok" <=> child.stdout = "json")]_vars

C9_Witness ==
    /\ child.phase = "closed" /\ child.cand = 3
    /\ tried = <<"ENOENT", "ENOENT", "closed">>
    /\ child.settled = "rejected"

\* C10: no stage is retried in place: every stage is started at most once and
\* its script runs to a close at most once, and once the main path has failed
\* the only invocation still started is the one fallback read.
C10_NoRetry ==
    /\ [](\A st \in Stages : completions[st] <= 1)
    /\ [](\A i, j \in 1..Len(trace) : trace[i] = trace[j] => i = j)
    /\ [](generationError.set => pc \in {"fallback_read", "done"})
    /\ [][generationError.set => trace' = trace]_vars
    /\ [][(~generationError.set /\ generationError'.set)
            => (trace' = trace \/ trace' = Append(trace, "fallback_read"))]_vars

C10_Witness ==
    /\ pc = "done" /\ generationError.set
    /\ "tag" \in failedStages
    /\ completions["build"] = 1 /\ completions["tag"] = 1
    /\ completions["fallback_read"] = 1

\* C11: parseJsonOutput is a fallback chain, each step tried when the one
\* before fails; as stated: output whose fenced block is not valid JSON but
\* which ends in a valid object literal parses to that object.
C11_AsStated ==
    LET trimmed == Trim(rawOutput)
        block   == fencedGroup(trimmed)
        literal == trailingGroup(trimmed, "{", "}")
    IN (/\ parsed # NotParsed
        /\ block # <<>> /\ ~IsJsonValue(Strip(block))
        /\ literal # <<>> /\ IsJsonValue(Strip(literal)))
       => parsed.ok /\ parsed.value = Strip(literal)

C11_Witness ==
    /\ rawOutput = <<FENCE, "x", FENCE, "{", "}">>
    /\ parsed.via = "fenced" /\ ~parsed.ok /\ parsed.error = SyntaxError

\* The course a merge step was called with, as the code reads it.
MergeStep == fileWrites' = fileWrites + 1 /\ incoming'.op = "merge"

IncomingId(c) == Trim(c.courseId)

IncomingName(c) ==
    LET given == Trim(IF c.courseName # <<>> THEN c.courseName ELSE IncomingId(c))
    IN IF given # <<>> THEN given ELSE IncomingId(c)

Holders(classes, id) == {i \in 1..Len(classes) : classes[i].courseId = id}

\* C12: merging a course whose courseId is already in the store updates that
\* entry instead of appending: afterwards the store is no longer, every entry
\* with that courseId holds the units of this merge, and classNames holds the
\* course's name once.
C12_AsStated ==
    [][(MergeStep /\ Holders(store.classes, IncomingId(incoming'.course)) # {})
       => /\ Len(store'.classes) = Len(store.classes)
          /\ \A i \in Holders(store'.classes, IncomingId(incoming'.course)) :
                store'.classes[i].units = incoming'.course.units
          /\ Cardinality({j \in 1..Len(store'.classNames) :
                store'.classNames[j] = IncomingName(incoming'.course)}) = 1]_vars

C12_Witness ==
    /\ incoming.op = "merge"
    /\ \E i \in Holders(store.classes, IncomingId(incoming.course)) :
          store.classes[i].units # incoming.course.units

\* C13: the upsert key is courseId first: when the store holds an entry with
\* the incoming courseId, an entry that held it is the one the merge replaces
\* by the incoming course, whatever the names of the entries before it.
C13_AsStated ==
    [][(MergeStep /\ Holders(store.classes, IncomingId(incoming'.course)) # {})
       => \E k \in Holders(store.classes, IncomingId(incoming'.course)) :
             store'.classes[k] = [courseId  |-> IncomingId(incoming'.course),
                                  className |-> IncomingName(incoming'.course),
                                  units     |-> incoming'.course.units]]_vars

C13_Witness ==
    /\ incoming.op = "merge"
    /\ \E i, j \in 1..Len(store.classes) :
          /\ i < j
          /\ store.classes[i].courseId = IncomingId(incoming.course)
          /\ store.classes[j].courseId = IncomingId(incoming.course)

\* C14: after every write by mergeCourseIntoClassNames or
\* writeSelectedCoursesToClassNamesJson, classNames lists each trimmed
\* non-empty className of classes exactly once and nothing else.
C14_ClassNamesDerived ==
    incoming.op # "none"
    => /\ \A i, j \in 1..Len(store.classNames) :
             store.classNames[i] = store.classNames[j] => i = j
       /\ Range(store.classNames)
            = {Trim(store.classes[i].className) : i \in 1..Len(store.classes)} \ {<<>>}

C14_Witness ==
    /\ incoming.op = "writeSelected"
    /\ Len(store.classes) = 2
    /\ Len(store.classNames) = 1

Matches(entry, c) ==
    entry.courseId = IncomingId(c) \/ Trim(entry.className) = IncomingName(c)

\* C15: a merge changes at most one entry: every entry that matches the
\* incoming course neither by courseId nor by trimmed className keeps its
\* content and its position, and no entry is dropped.
C15_MergeFrame ==
    [][MergeStep
       => /\ Len(store'.classes) >= Len(store.classes)
          /\ Len(store'.classes) <= Len(store.classes) + 1
          /\ \A i \in 1..Len(store.classes) :
                ~Matches(store.classes[i], incoming'.course)
                => store'.classes[i] = store.classes[i]
          /\ Cardinality({i \in 1..Len(store'.classes) :
                i > Len(store.classes) \/ store'.classes[i] # store.classes[i]}) <= 1]_vars

C15_Witness ==
    /\ incoming.op = "merge"
    /\ fileWrites = 3
    /\ Len(store.classes) = 3
    /\ store.classes[2].units = incoming.course.units
    /\ incoming.course.units # <<>>

\* The POST handler has answered a request for at least one course.
Answered == response.status # 0 /\ settled # <<>>

SlotFailed(i) ==
    \/ settled[i].status = "rejected"
    \/ settled[i].status = "fulfilled" /\ Len(settled[i].value.units) = 0

\* C16: a POST that prepares concepts updates or appends the requested
\* courses in classNames.json, and the entries of courses that are in the file
\* and not part of the request (neither by courseId nor by className) are
\* still in the file afterwards.
C16_AsStated ==
    [][(response = NoResponse /\ response'.status = 200)
       => /\ \A i \in 1..Len(incoming'.courses) :
                \E j \in 1..Len(store'.classes) :
                   /\ store'.classes[j].courseId = incoming'.courses[i].courseId
                   /\ store'.classes[j].units = incoming'.courses[i].units
          /\ \A i \in 1..Len(store.classes) :
                (\A k \in 1..Len(incoming'.courses) :
                    /\ store.classes[i].courseId # Trim(incoming'.courses[k].courseId)
                    /\ Trim(store.classes[i].className) # Trim(incoming'.courses[k].className))
                => \E j \in 1..Len(store'.classes) : store'.classes[j] = store.classes[i]]_vars

C16_Witness ==
    /\ response.status = 200
    /\ \A j \in 1..Len(store.classes) : store.classes[j].courseId # <<"3">>
    /\ Len(store.classes) = 1

\* C18: when every requested course fails (its run rejects or returns no
\* units) the response is an error status without structures, and failedCourses
\* has one entry per requested course: the requested id with the rejection's
\* message, or the run's courseId with the no-units message.
C18_TotalFailure ==
    (Answered /\ \A i \in 1..Len(settled) : SlotFailed(i))
    => /\ response.status = 500
       /\ response.courses = <<>>
       /\ Len(response.failedCourses) = Len(toCourseIds(request))
       /\ \A i \in 1..Len(settled) :
             \E j \in 1..Len(response.failedCourses) :
                response.failedCourses[j] =
                   IF settled[i].status = "rejected"
                   THEN [courseId |-> toCourseIds(request)[i],
                         error |-> settled[i].reason.message]
                   ELSE [courseId |-> settled[i].value.courseId,
                         error |-> <<"No conceptual units returned yet">>]

C18_Witness ==
    /\ Answered
    /\ Len(settled) = 2
    /\ settled[1].status = "fulfilled" /\ Len(settled[1].value.units) = 0
    /\ settled[2].status = "rejected"
    /\ Len(response.failedCourses) = 2

\* C19: when some but not all requested courses fail, the response is a
\* success that carries the structures of the courses that succeeded together
\* with a non-empty failed-courses field.
C19_AsStated ==
    (/\ Answered
     /\ \E i \in 1..Len(settled) : SlotFailed(i)
     /\ \E i \in 1..Len(settled) : ~SlotFailed(i))
    => /\ response.status = 200
       /\ response.failedCourses # <<>>
       /\ \A i \in 1..Len(settled) :
             ~SlotFailed(i)
             => \E j \in 1..Len(response.courses) :
                   response.courses[j].units = settled[i].value.units

C19_Witness ==
    /\ Answered
    /\ Len(settled) = 2
    /\ SlotFailed(1) /\ ~SlotFailed(2)
    /\ response.status = 500
    /\ response.courses = <<>>

\* C17: when two course-runs for the same course have both completed, the
\* store holds exactly one entry for that course and it is the payload of the
\* run that wrote last, whichever run started first.
C17_AsStated ==
    (Len(writes) = 2)
    => LET last    == racers[writes[2]].payload
           entries == {i \in 1..Len(store.classes) :
                          store.classes[i].courseId = RaceCourseId}
       IN /\ Cardinality(entries) = 1
          /\ \A i \in entries :
                store.classes[i] = [courseId |-> last.courseId,
                                    className |-> Trim(last.courseName),
                                    units |-> last.units]

C17_Witness ==
    /\ Len(writes) = 2
    /\ Cardinality({i \in 1..Len(store.classes) :
                        store.classes[i].courseId = RaceCourseId}) = 2

OtherEndpoint(name) == IF name = "assignments" THEN "files" ELSE "assignments"

\* a page request of this endpoint threw a 401, 403 or 404 in this step
AccessErrorOn(name) ==
    /\ endpoints[name].state = "pending"
    /\ endpoints'[name].state # "pending"
    /\ endpoints'[name].status \in {401, 403, 404}

\* the fetch returned having taken every active course through the loop
AllCoursesVisited ==
    /\ canvasResult.set
    /\ Len(visited) = Len(activeCoursesOf(canvasCourses))

\* the i-th active course: one endpoint skipped, the other with items
SkippedWithItems(i) ==
    \E name \in EndpointNames :
        /\ visited[i][name].state = "skipped"
        /\ visited[i][OtherEndpoint(name)].all > 0

\* C20: in fetchCanvasData a 401, 403 or 404 on a course's assignments or
\* files endpoint is skipped: the endpoint counts as an empty list, the other
\* endpoint of the course is left as it was, the fetch does not fail on it and
\* goes on to every remaining course (a fetch that fails has failed on the
\* listing or on an error that is not an access error; a fetch that returns
\* has visited every active course, and a named course with a skipped
\* endpoint and items on the other one is in the result); an error while
\* listing the courses aborts the fetch before any course is visited.
C20_AccessErrorsSkipped ==
    /\ [][\A name \in EndpointNames :
            AccessErrorOn(name) =>
                /\ endpoints'[name].state = "skipped"
                /\ endpoints'[name].all = 0
                /\ endpoints'[OtherEndpoint(name)] = endpoints[OtherEndpoint(name)]
                /\ cvPc' = "courses"
                /\ failure' = NoFailure
                /\ cvIndex' = cvIndex]_vars
    /\ [](cvPc = "failed" =>
            /\ ~canvasResult.set
            /\ \/ failure.where = "courses"
               \/ failure.status \notin {401, 403, 404})
    /\ [](cvPc = "done" =>
            /\ AllCoursesVisited
            /\ \A i \in 1..Len(visited) :
                 LET course == activeCoursesOf(canvasCourses)[i]
                 IN (SkippedWithItems(i) /\ Trim(course.name) # <<>>) =>
                        \E k \in 1..Len(canvasResult.classes) :
                            canvasResult.classes[k].courseId = course.id)
    /\ [][(cvPc \in {"listing", "relisting"} /\ failure'.where = "courses") =>
            (cvPc' = "failed" /\ visited' = <<>> /\ ~canvasResult'.set)]_vars
    /\ [](failure.where = "courses" => (cvPc = "failed" /\ visited = <<>>))

\* the fetch returned a class for a course whose assignments endpoint was
\* skipped on a 403, after a first course with a skipped files endpoint
C20_Witness ==
    /\ cvPc = "done"
    /\ Len(visited) = 2
    /\ visited[1].files.state = "skipped"
    /\ visited[1].files.status = 404
    /\ visited[2].assignments.state = "skipped"
    /\ visited[2].assignments.status = 403
    /\ visited[2].files.state = "ok"
    /\ visited[2].files.all > PER_PAGE
    /\ Len(canvasResult.classes) = 1
    /\ canvasResult.classes[1].courseId = <<"1">>

\* the stage sequences of the state machine: the short-circuit, the main path,
\* each with or without the initial read, and a main path cut by a failure,
\* followed by the fallback read or by nothing
MainPaths ==
    {SubSeq(<<"build", "tag", "final_read">>, 1, n) : n \in 1..3}

MachinePaths ==
    LET tails == MainPaths \cup {Append(m, "fallback_read") : m \in MainPaths}
    IN {<<>>, <<"initial_read">>} \cup tails \cup {<<"initial_read">> \o t : t \in tails}

\* C21: every course-run terminates: when every timer that stays armed fires
\* and every killed process closes, the run reaches DONE, resolved with a
\* result or rejected with the failure; it starts at most five stages, and the
\* stages it has started are a path of the state machine.
C21_Terminates ==
    /\ <>(pc = "done")
    /\ [](pc = "done" =>
            /\ outcome \in {"resolved", "rejected"}
            /\ procs = {}
            /\ trace \in MachinePaths)
    /\ [](Len(trace) <= 5)
    /\ [](outcome = "rejected" =>
            (Trim(opts.courseId) = <<>> \/ ~opts.allowExistingFallback))

\* a run whose final read was killed by its timer and that returned the
\* fallback result after five stages
C21_Witness ==
    /\ pc = "done"
    /\ outcome = "resolved"
    /\ Len(trace) = 5
    /\ failedStages = {"final_read"}
    /\ result.hasWarning

\* the positions of the candidates at or above the threshold
AtOrAbove == {i \in 1..Len(query.candidates) : query.candidates[i].sim >= query.threshold}

ReturnedIds == {retrieved.chunks[k].id : k \in 1..Len(retrieved.chunks)}

\* C22: retrieval returns the candidates ranked by similarity, highest first,
\* cut to the top K and without those below the threshold; with fewer than
\* two survivors it returns the insufficient-evidence outcome and no chunk.
\* For similarities 0.9, 0.5, 0.2, 0.1, threshold 0.25 and K = 8 the first two
\* are returned; with one candidate at or above 0.25 the outcome is
\* insufficient evidence.
C22_Retrieval ==
    retrieved # NotRetrieved =>
        LET chunks == retrieved.chunks
            n      == Len(chunks)
            enough == Cardinality(AtOrAbove) >= 2 /\ query.topK >= 2
        IN /\ retrieved.outcome = (IF enough THEN "result" ELSE "insufficient-evidence")
           /\ ~enough => chunks = <<>>
           /\ enough =>
                /\ n >= 2 /\ n <= query.topK
                /\ Cardinality(ReturnedIds) = n
                /\ \A k \in 1..n :
                     /\ chunks[k] = query.candidates[chunks[k].id]
                     /\ chunks[k].sim >= query.threshold
                     /\ k < n => chunks[k].sim >= chunks[k + 1].sim
                /\ \A i \in AtOrAbove \ ReturnedIds :
                     /\ n = query.topK
                     /\ \A k \in 1..n : chunks[k].sim >= query.candidates[i].sim
           /\ ( /\ [i \in 1..Len(query.candidates) |-> query.candidates[i].sim]
                     = <<90, 50, 20, 10>>
                /\ query.topK = 8 /\ query.threshold = 25 )
                => chunks = SubSeq(query.candidates, 1, 2)
           /\ Cardinality(AtOrAbove) = 1 => retrieved.outcome = "insufficient-evidence"

\* three candidates pass, one exactly at the threshold, and the top two are
\* returned in rank order
C22_Witness ==
    /\ retrieved.outcome = "result"
    /\ query.topK = 2
    /\ [i \in 1..Len(query.candidates) |-> query.candidates[i].sim] = <<25, 10, 90, 25>>
    /\ [k \in 1..Len(retrieved.chunks) |-> retrieved.chunks[k].id] = <<3, 1>>

\* C23: a tagging run replaces the course's assignments all or nothing: while
\* it runs and after it has failed at any batch the stored set is the set
\* from before the run; after it has completed the stored set holds the
\* assignments of that run and no other; the stored set never holds
\* assignments of two runs.
C23_AllOrNothing ==
    /\ tagPc \in {"tagging", "failed"} => assignments = preRun
    /\ tagPc = "done" =>
          /\ \A a \in assignments : a.run = tagRun
          /\ assignments = tagged
    /\ \A a, b \in assignments : a.run = b.run

\* the second run failed after its first batch, which had produced
\* assignments, and the first run's assignments are still the stored set
C23_Witness ==
    /\ tagPc = "failed"
    /\ tagRun = 2
    /\ nextChunk > 1
    /\ tagged # {}
    /\ assignments # {}
    /\ \A a \in assignments : a.run = 1

\* C24: starting from the empty store, after any sequence of merges no two
\* entries of classes have the same courseId and no two have the same trimmed
\* className.
C24_AsStated ==
    \A i, j \in 1..Len(store.classes) :
        i # j => /\ store.classes[i].courseId # store.classes[j].courseId
                 /\ Trim(store.classes[i].className) # Trim(store.classes[j].className)

\* three merges have left two entries
C24_Witness ==
    /\ incoming.op = "merge"
    /\ fileWrites = 3
    /\ Len(store.classes) = 2

AllRunsDone == \A i \in 1..Len(racers) : racers[i].pc = "done"

\* the merged results are for courses with distinct ids and distinct names
DistinctCourses ==
    \A i, j \in 1..Len(racers) :
        i # j => /\ racers[i].payload.courseId # racers[j].payload.courseId
                 /\ Trim(racers[i].payload.courseName) # Trim(racers[j].payload.courseName)

\* C25: in one process a merge is one step, so when concurrent course-runs
\* for courses with distinct courseIds and distinct names have each merged
\* their result, in whatever order they finished, the store holds for each of
\* them an entry with its courseId, its name and its units.
C25_NoLostUpdate ==
    (AllRunsDone /\ DistinctCourses) =>
        \A i \in 1..Len(racers) :
            \E k \in 1..Len(store.classes) :
                /\ store.classes[k].courseId = racers[i].payload.courseId
                /\ store.classes[k].className = Trim(racers[i].payload.courseName)
                /\ store.classes[k].units = racers[i].payload.units

\* the second course's run merged first, into a store whose one entry had the
\* first course's name, and the first course's run replaced that entry
C25_Witness ==
    /\ AllRunsDone /\ DistinctCourses
    /\ writes = <<2, 1>>
    /\ racers[2].existing.classes # <<>>
    /\ racers[1].payload.courseName = <<"B">>
    /\ Len(store.classes) = 2

\* C26: a course-run merges into the store exactly once when it returns a
\* result and writeFile is not false, on the step that returns; it never
\* merges when it rejects or when writeFile is false; with an empty courseId
\* it rejects before any invocation and before any write.
C26_MergesOnce ==
    /\ pc # "done" => fileWrites = 0
    /\ (pc = "done" /\ outcome = "resolved") =>
            fileWrites = (IF opts.writeFile THEN 1 ELSE 0)
    /\ outcome = "rejected" => (fileWrites = 0 /\ store = EmptyStore)
    /\ ~opts.writeFile => (fileWrites = 0 /\ store = EmptyStore)
    /\ fileWrites = 1 =>
          \E k \in 1..Len(store.classes) :
              /\ store.classes[k].courseId = result.courseId
              /\ store.classes[k].units = result.units
    /\ (Trim(opts.courseId) = <<>> /\ pc = "done") =>
          /\ outcome = "rejected"
          /\ trace = <<>> /\ procs = {}
          /\ \A stage \in Stages : completions[stage] = 0
          /\ fileWrites = 0

\* a run that returned the fallback result without writing, writeFile being false
C26_Witness ==
    /\ pc = "done" /\ outcome = "resolved"
    /\ ~opts.writeFile
    /\ result.hasWarning
    /\ result.units # <<>>
    /\ fileWrites = 0

InitialReadFoundNothing ==
    Failed("initial_read") \/ (Returned("initial_read") /\ UnitsIn(ret.value) = <<>>)

\* C29: a failed or empty initial read does not abort the run: the build is
\* started exactly when the initial read is disabled, fails or returns no
\* unit, and when the final read-back of the main path then returns, the
\* run resolves with that read-back's units and without a warning, also
\* after a failed initial read.
C29_InitialReadNotFatal ==
    /\ [][(~Started("build") /\ Started("build")') =>
            \/ pc = "start" /\ ~opts.preferExisting
            \/ InitialReadFoundNothing]_vars
    /\ [][(pc = "start" /\ ~opts.preferExisting /\ Trim(opts.courseId) # <<>>) =>
            (pc' = "build" /\ trace' = <<"build">>)]_vars
    /\ [][InitialReadFoundNothing =>
            (pc' = "build" /\ outcome' = "none" /\ trace' = <<"initial_read", "build">>)]_vars
    /\ [][(Returned("initial_read") /\ UnitsIn(ret.value) # <<>>) =>
            (pc' = "done" /\ ~Started("build")')]_vars
    /\ [][Returned("final_read") =>
            /\ pc' = "done" /\ outcome' = "resolved"
            /\ ~result'.hasWarning /\ result'.warning = <<>>
            /\ result'.units = UnitsIn(ret.value)]_vars

\* the initial read failed, the main path succeeded and the result has the
\* final read-back's units and no warning
C29_Witness ==
    /\ pc = "done" /\ outcome = "resolved"
    /\ failedStages = {"initial_read"}
    /\ existingLookupError.set
    /\ trace = <<"initial_read", "build", "tag", "final_read">>
    /\ result.units # <<>>
    /\ ~result.hasWarning


\* C28: the POST handler writes classNames.json only when the run of every
\* requested course fulfilled with at least one unit; when any run rejects or
\* returns no units the handler answers with the error and failedCourses and
\* the file is exactly as it was before the request.
C28_WritesOnlyWhenAllSucceed ==
    [][(response = NoResponse /\ response' # NoResponse /\ settled # <<>>)
       => IF \E i \in 1..Len(settled) : SlotFailed(i)
          THEN /\ response'.status = 500
               /\ response'.error # <<>>
               /\ response'.failedCourses # <<>>
               /\ store' = store
               /\ fileWrites' = fileWrites
          ELSE /\ response'.status = 200
               /\ fileWrites' = fileWrites + 1]_vars

C28_Witness ==
    /\ Answered
    /\ response.status = 500
    /\ Len(settled) = 2
    /\ settled[1].status = "fulfilled" /\ Len(settled[1].value.units) > 0
    /\ settled[2].status = "fulfilled" /\ Len(settled[2].value.units) = 0
    /\ Len(store.classes) = 2
    /\ fileWrites = 0


\* C30: mergeMastery returns exactly the incoming scores in diagnostic mode
\* or when there are no existing scores; in practice mode a topic in both maps
\* gets round(0.3*old + 0.7*new), a topic only in incoming takes its new score
\* and a topic only in existing keeps its old score; integer inputs in 0..100
\* give integer scores in 0..100.
C30_AsStated ==
    mastery.pc = "returned"
    => /\ (mastery.mode = "diagnostic" \/ ~mastery.existing.defined)
             => mastery.merged = mastery.incoming
       /\ (mastery.mode = "practice" /\ mastery.existing.defined)
             => \A tid \in MasteryTopics :
                   LET old   == mastery.existing.scores[tid]
                       score == mastery.incoming[tid]
                   IN mastery.merged[tid] =
                         IF old # ABSENT /\ score # ABSENT THEN blendExactly(old, score)
                         ELSE IF score # ABSENT THEN score
                         ELSE old
       /\ \A tid \in MasteryTopics : mastery.merged[tid] \in (0..100) \cup {ABSENT}

C30_Witness ==
    /\ mastery.pc = "returned"
    /\ mastery.mode = "practice"
    /\ mastery.existing.defined
    /\ mastery.existing.scores["t1"] = 1
    /\ mastery.incoming["t1"] = 6
    /\ mastery.merged["t1"] = 4
    /\ blendExactly(1, 6) = 5


ManyRunChanges == many.pc # "idle" /\ many'.runs # many.runs

ManyOutcome ==
    /\ fileWrites <= 1
    /\ (\E i \in 1..Len(many.runs) : many.runs[i].status = "rejected")
          => many.pc # "resolved" /\ many.rejectedBy # 0 /\ fileWrites = 0
    /\ many.pc = "rejected" => fileWrites = 0
    /\ many.pc = "resolved"
          => /\ fileWrites = IF many.writeFile THEN 1 ELSE 0
             /\ Len(many.results) = Len(many.courses)
             /\ \A i \in 1..Len(many.courses) :
                   /\ many.results[i] = many.runs[i].value
                   /\ many.results[i].courseId \in
                         {Trim(many.courses[i].courseId), <<"2">>}
             /\ many.writeFile
                   => /\ incoming.courses = many.results
                      /\ store = writeSelected(many.results, now - 1)

\* C27: runMany is all-or-nothing: a run of one course never writes
\* classNames.json; when the run of any course rejects, runMany does not
\* resolve and the file is not written; when every run has fulfilled and
\* writeFile is set, the file is written exactly once, with the results in the
\* order of the requested courses.
C27_AllOrNothing ==
    /\ []ManyOutcome
    /\ [][ManyRunChanges => store' = store /\ fileWrites' = fileWrites]_vars
    /\ [][many'.pc = "rejected" => store' = store /\ fileWrites' = fileWrites]_vars

C27_Witness ==
    /\ many.pc = "resolved"
    /\ many.writeFile
    /\ Len(many.courses) = 2
    /\ Trim(many.courses[1].courseId) = <<"2">>
    /\ Trim(many.courses[2].courseId) = <<"1">>
    /\ many.results[1].courseId = <<"2">>
    /\ many.results[2].courseId = <<"1">>
    /\ fileWrites = 1
    /\ Len(store.classes) = 2
    /\ store.classes[1].courseId = <<"2">>

====
